---- MODULE Spec2Model ----
(***************************************************************************)
(* OlicanaPlot plugins: the IPC session loop, the interactive initialize   *)
(* workflows of the MSC Climate Data plugin and of the Open Meteo          *)
(* downloader, and the cache and history the Open Meteo workflow uses.     *)
(*                                                                         *)
(* One step of the model is one read of the input stream followed by       *)
(* everything the code does until it blocks on the next read (or exits).   *)
(***************************************************************************)
EXTENDS Integers, Sequences, FiniteSets, TLC

VARIABLES
    plugin,               \* which plugin process this is: "msc" or "om"
    pc,                   \* "idle" (main at read), "wf" (handle_initialize at read), "done", "crashed"
    closed,               \* the last read found the input stream at its end
    req,                  \* what the last read_request() returned
    site,                 \* where that read happened: "idle", "wf" ("none" before any read)
    events,               \* writes and remote calls made since that read, in order
    initialized,          \* {"result": "initialized"} has been written at least once
    msc_station, msc_start_date, msc_end_date, msc_observations,   \* msc PluginState
    step, coords, start_date, end_date, discovered_stations,       \* msc handle_initialize locals
    om_cities, om_start_date, om_end_date, om_mode, om_data,       \* open meteo PluginState
    cache_cities, cache_daily,                                     \* ClimateCache tables
    history,                                                       \* search_history.json
    last_cities, last_search_type, search_maps,                    \* open meteo handle_initialize locals
    op,                   \* the last call made to the cache, the history or the codec on its own
    logged,               \* how many log_search calls on their own were new searches, how many repeats
    entry                 \* PluginState as it was when the running handle_initialize was called,
                          \* in the behaviours that keep track of it

mscState == <<msc_station, msc_start_date, msc_end_date, msc_observations>>
mscLocals == <<step, coords, start_date, end_date, discovered_stations>>
omState == <<om_cities, om_start_date, om_end_date, om_mode, om_data>>
omStore == <<cache_cities, cache_daily, history>>
omLocals == <<last_cities, last_search_type, search_maps>>
vars == <<plugin, pc, closed, req, site, events, initialized,
          mscState, mscLocals, omState, omStore, omLocals, op, logged, entry>>

(***************************************************************************)
(* Bounds of the model.                                                    *)
(***************************************************************************)
\* Day number of date.today(); dates are day numbers, "" is EmptyDate.
Today == 11000
\* Number of stations the discovery search can return.
MaxStations == 2

EmptyDate == 0
\* The dates a form submits when it does not leave the defaults: an end
\* date before the start date.
SubmittedStart == 200
SubmittedEnd == 100

(***************************************************************************)
(* Optional values: <<>> is an absent key (or None), <<v>> a present one.  *)
(***************************************************************************)
Get(opt, default) == IF opt = <<>> THEN default ELSE opt[1]

(***************************************************************************)
(* Output records and remote-call records.                                 *)
(***************************************************************************)
Ev(kind, level, text, arg) == [kind |-> kind, level |-> level, text |-> text, arg |-> arg]

\* ipc_helpers.send_response with a plain result
send_result(v) == Ev("result", "", "", v)
send_info(name) == Ev("info", "", name, 1)
send_error(text, arg) == Ev("error", "", text, arg)
send_show_form(title, data, handle_form_change) ==
    Ev("show_form", "", title, [data |-> data, handle_form_change |-> handle_form_change])
\* send_binary_data whose header counts the values, not the bytes.
send_binary_data_count(values, storage) ==
    Ev("binary", "", storage, [length |-> Len(values), values |-> values])

send_binary_data(values, storage) ==
    Ev("binary", "", storage, [length |-> Len(values) * 8, values |-> values])
log(level, text, arg) == Ev("log", level, text, arg)
\* a call of a remote client or a lookup in the cache: what it was asked
\* about and what it did
call(fn, about, outcome) == Ev("call", "", fn, [about |-> about, outcome |-> outcome])

IsResponse(e) == e.kind \notin {"call", "log"}
Responses(evs) == SelectSeq(evs, IsResponse)
IsFormEv(e) == e.kind = "show_form"

(***************************************************************************)
(* What the peer can put on the input stream.  A line is end of stream,    *)
(* an empty or unparsable line, or one JSON value.                         *)
(***************************************************************************)
\* The payload of a "result" record.  t is the JSON type of the payload.
Payload(t, location, startDate, endDate, station, cities, sd, ed, mode) ==
    [t |-> t, location |-> location, startDate |-> startDate, endDate |-> endDate,
     station |-> station, cities |-> cities, start_date |-> sd, end_date |-> ed,
     mode |-> mode]
NoPayload == Payload("dict", <<>>, <<>>, <<>>, <<>>, <<>>, <<>>, <<>>, <<>>)

\* The payload of a form_change record.
FormData(cities, search_type) == [cities |-> cities, search_type |-> search_type]

\* A JSON value.  json is its type: "object", "empty_object" ({}), "list"
\* (a non-empty list), "number" (a non-zero number); "None" is no value at all.
Value(json, method, result, has_error, series_id, preferred_storage, data) ==
    [json |-> json, method |-> method, result |-> result, has_error |-> has_error,
     series_id |-> series_id, preferred_storage |-> preferred_storage, data |-> data]
None == Value("None", <<>>, <<>>, FALSE, <<>>, <<>>, <<>>)
Object(method, result, has_error, series_id, preferred_storage, data) ==
    Value("object", method, result, has_error, series_id, preferred_storage, data)
Request(method) == Object(<<method>>, <<>>, FALSE, <<>>, <<>>, <<>>)
Result(payload) == Object(<<>>, <<payload>>, FALSE, <<>>, <<>>, <<>>)

\* Locations a step-1 form can submit: two points, a mapping without "lat",
\* a mapping whose coordinates are not numbers (marked by its type field).
DefaultCoords == [lat |-> 51, lng |-> -114]
OtherCoords == [lat |-> 45, lng |-> -75]
NoLatCoords == [lng |-> -75]
TextCoords == [lat |-> 0, lng |-> 0, type |-> "string"]
Numeric(c) == "type" \notin DOMAIN c
Locations == {OtherCoords, NoLatCoords, TextCoords}

\* The stations that exist have the climate_id 1..MaxStations; UnknownStation
\* is an id of none.
UnknownStation == MaxStations + 1

\* City lists a form can submit (a name padded with blanks, a blank name).
TwoCities == <<"Calgary", " Banff ">>
CityLists == {<<" ">>, TwoCities}
NewSearch == [label |-> "New Search"]

MscPayloads ==
    {Payload("dict", loc, <<>>, <<>>, <<>>, <<>>, <<>>, <<>>, <<>>) :
        loc \in {<<>>} \cup {<<l>> : l \in Locations}}
    \cup {Payload("dict", <<>>, <<SubmittedStart>>, <<SubmittedEnd>>, <<>>, <<>>, <<>>, <<>>, <<>>)}
    \cup {Payload("dict", <<>>, <<>>, <<>>, <<s>>, <<>>, <<>>, <<>>, <<>>) :
        s \in {1, MaxStations, UnknownStation}}
OmPayloads ==
    {Payload("dict", <<>>, <<>>, <<>>, <<>>, <<l>>, <<>>, <<>>, <<>>) : l \in CityLists}
    \cup {Payload("dict", <<>>, <<>>, <<>>, <<>>, <<TwoCities>>, <<>>, <<>>, <<"Monthly">>),
          Payload("dict", <<>>, <<>>, <<>>, <<>>, <<TwoCities>>,
                   <<SubmittedStart>>, <<SubmittedEnd>>, <<>>),
          Payload("dict", <<>>, <<>>, <<>>, <<>>, <<TwoCities>>,
                   <<SubmittedStart>>, <<SubmittedStart>>, <<>>)}
Payloads == MscPayloads \cup OmPayloads \cup {[NoPayload EXCEPT !.t = "string"]}

\* search_type values of a form_change: none, "New Search", the label of a
\* past search (the joined city names and the dates, see get_history_options).
RECURSIVE Join(_)
\* ", ".join(cities)
Join(cities) ==
    IF cities = <<>> THEN ""
    ELSE IF Len(cities) = 1 THEN cities[1]
    ELSE cities[1] \o ", " \o Join(Tail(cities))
Label(s) == [c_str |-> Join(s.cities), start_date |-> s.start_date, end_date |-> s.end_date]
DefaultStartOm == Today - 365 * 30
DefaultEndOm == Today
SearchTypes ==
    {Label([cities |-> <<"Calgary", "Banff">>, start_date |-> DefaultStartOm,
            end_date |-> DefaultEndOm])}
FormDatas ==
    {FormData(c, s) : c \in {<<>>, <<<<"Calgary">>>>, <<<<"Banff">>>>},
                      s \in {<<>>} \cup {<<t>> : t \in SearchTypes}}

SeriesIds == {"mean_temp", "Calgary_tmean", "Banff_tmin", "nosuch"}
Methods == {"info", "initialize", "get_chart_config", "get_series_config",
            "get_series_data", "form_change", "frobnicate"}

Values ==
    {Request(m) : m \in Methods}
    \cup {Object(<<"get_series_data">>, <<>>, FALSE, <<s>>, <<>>, <<>>) : s \in SeriesIds}
    \cup {Object(<<"get_series_data">>, <<>>, FALSE, <<"mean_temp">>, <<"arrays">>, <<>>)}
    \cup {Result(p) : p \in Payloads}
    \cup {Object(<<>>, <<>>, TRUE, <<>>, <<>>, <<>>),                  \* {"error": ...}
          Object(<<>>, <<NoPayload>>, TRUE, <<>>, <<>>, <<>>),         \* result and error
          Object(<<>>, <<>>, FALSE, <<>>, <<>>, <<>>)}                 \* {"x": 1}
    \cup {Object(<<"form_change">>, <<>>, FALSE, <<>>, <<>>, <<d>>) : d \in FormDatas}
    \cup {Value(j, <<>>, <<>>, FALSE, <<>>, <<>>, <<>>) : j \in {"empty_object", "list", "number"}}

Lines == {[t |-> "eof"], [t |-> "garbage"]} \cup {[t |-> "json", v |-> v] : v \in Values}

(***************************************************************************)
(* ipc_helpers.read_request: None at end of stream and for a line that     *)
(* does not parse, the parsed value otherwise.                             *)
(***************************************************************************)
read_request(line) ==
    IF line.t = "eof" THEN None
    ELSE IF line.t = "garbage" THEN None
    ELSE line.v

\* Python's `not req`
Falsy(v) == v.json \in {"None", "empty_object"}
\* `"key" in req`: a TypeError for a number, a membership test for a list
InRaises(v) == v.json = "number"
HasResult(v) == v.json = "object" /\ v.result # <<>>
HasError(v) == v.json = "object" /\ v.has_error
\* req.get: an AttributeError for anything but a mapping
GetRaises(v) == v.json # "object"
\* f"{method}"
Str(method) == Get(method, "None")

(***************************************************************************)
(* The MSC Climate Data plugin (src/plugins/msc-climate-data).             *)
(***************************************************************************)
\* The remote clients of msc_api either raise or return a value.
Raise == [raised |-> TRUE, value |-> <<>>]
Return(x) == [raised |-> FALSE, value |-> x]

RECURSIVE Ascending(_)
\* The elements of a set of numbers in ascending order.
Ascending(S) ==
    IF S = {} THEN <<>>
    ELSE LET m == CHOOSE x \in S : \A y \in S : x <= y
         IN <<m>> \o Ascending(S \ {m})

\* search_stations_bbox returns the stations it found sorted by name (a
\* station is modelled by its climate_id, names ordered as the ids); the
\* searches return the first k stations, for every k.
SearchOutcomes == {Raise} \cup {Return([i \in 1..k |-> i]) : k \in 0..MaxStations}

\* DailyObservation; None is <<>>.
Observation(date, mean_temp, min_temp, max_temp) ==
    [date |-> date, mean_temp |-> mean_temp, min_temp |-> min_temp, max_temp |-> max_temp]
ObservationLists ==
    {<<>>,
     <<Observation(100, <<5>>, <<1>>, <<9>>), Observation(101, <<>>, <<2>>, <<>>)>>}
FetchDailyOutcomes == {Raise} \cup {Return(o) : o \in ObservationLists}

StartDefaultMsc == Today - 395
EndDefaultMsc == Today - 30

\* The form handle_initialize emits at the top of its loop.
MscForm(st, c, sd, ed, disc) ==
    IF st = 1
    THEN send_show_form("MSC Climate Discovery - Step 1/2",
                        [location |-> c, startDate |-> sd, endDate |-> ed], FALSE)
    ELSE send_show_form("MSC Climate Discovery - Step 2/2",
                        [station |-> IF disc # <<>> THEN <<disc[1]>> ELSE <<>>,
                         oneOf |-> disc], FALSE)

\* The values of handle_initialize's variables and of PluginState.
MscVars ==
    [pc |-> pc, step |-> step, coords |-> coords, start_date |-> start_date,
     end_date |-> end_date, discovered_stations |-> discovered_stations,
     station |-> msc_station, state_start_date |-> msc_start_date,
     state_end_date |-> msc_end_date, observations |-> msc_observations,
     events |-> <<>>, initialized |-> initialized]

\* msc_api.search_stations_bbox: the bounding box arithmetic raises for
\* coordinates that are not numbers, before the request is logged and sent.
search_stations_bbox(c, outcome) ==
    IF ~Numeric(c) THEN [events |-> <<>>, result |-> Raise]
    ELSE [events |-> <<log("debug", "Discovery OGC API Request", c),
                       call("search_stations_bbox", c, outcome)>>,
          result |-> outcome]

\* msc_api.fetch_daily_data: swaps backward dates, then pages through the API.
fetch_daily_data(id, sd, ed, outcome) ==
    [events |-> (IF sd > ed THEN <<log("warn", "Dates were backwards. Swapping.", <<sd, ed>>)>>
                 ELSE <<>>)
                \o <<log("debug", "OGC API Request", id), call("fetch_daily_data", id, outcome)>>,
     result |-> outcome]

\* MscStep1 without the `continue` after an empty search: falls through to step 2.
MscStep1_advance_on_empty(m, res, so) ==
    IF res.t # "dict" THEN [m EXCEPT !.pc = "crashed"]
    ELSE
    LET c == Get(res.location, m.coords)
        sd == Get(res.startDate, m.start_date)
        ed == Get(res.endDate, m.end_date)
        m1 == [m EXCEPT !.coords = c, !.start_date = sd, !.end_date = ed]
    IN  IF "lat" \notin DOMAIN c THEN [m1 EXCEPT !.pc = "crashed"]
        ELSE
        LET l == <<log("info", "Verifying stations near", c)>>
            s == search_stations_bbox(c, so)
        IN  IF s.result.raised
            THEN [m1 EXCEPT !.events = l \o s.events
                                \o <<send_error("Discovery search failed", c)>>]
            ELSE IF s.result.value = <<>>
            THEN [m1 EXCEPT !.discovered_stations = <<>>,
                            !.step = 2,
                            !.events = l \o s.events
                                \o <<log("warn", "No stations found with daily data near", c),
                                     send_error("No stations found with daily data near", c)>>]
            ELSE [m1 EXCEPT !.discovered_stations = s.result.value,
                            !.step = 2,
                            !.events = l \o s.events]

\* MscStep1 that forgets the submitted location and dates when its search
\* raises.
MscStep1_forget_on_failure(m, res, so) ==
    IF res.t # "dict" THEN [m EXCEPT !.pc = "crashed"]
    ELSE
    LET c == Get(res.location, m.coords)
        sd == Get(res.startDate, m.start_date)
        ed == Get(res.endDate, m.end_date)
        m1 == [m EXCEPT !.coords = c, !.start_date = sd, !.end_date = ed]
    IN  IF "lat" \notin DOMAIN c THEN [m1 EXCEPT !.pc = "crashed"]
        ELSE
        LET l == <<log("info", "Verifying stations near", c)>>
            s == search_stations_bbox(c, so)
        IN  IF s.result.raised
            THEN [m EXCEPT !.events = l \o s.events
                               \o <<send_error("Discovery search failed", c)>>]
            ELSE IF s.result.value = <<>>
            THEN [m1 EXCEPT !.discovered_stations = <<>>,
                            !.events = l \o s.events
                                \o <<log("warn", "No stations found with daily data near", c),
                                     send_error("No stations found with daily data near", c)>>]
            ELSE [m1 EXCEPT !.discovered_stations = s.result.value,
                            !.step = 2,
                            !.events = l \o s.events]

\* handle_initialize, step 1, for a submitted form `res`.
MscStep1(m, res, so) ==
    IF res.t # "dict" THEN [m EXCEPT !.pc = "crashed"]           \* res.get
    ELSE
    LET c == Get(res.location, m.coords)
        sd == Get(res.startDate, m.start_date)
        ed == Get(res.endDate, m.end_date)
        m1 == [m EXCEPT !.coords = c, !.start_date = sd, !.end_date = ed]
    IN  IF "lat" \notin DOMAIN c THEN [m1 EXCEPT !.pc = "crashed"]   \* coords["lat"]
        ELSE
        LET l == <<log("info", "Verifying stations near", c)>>
            s == search_stations_bbox(c, so)
        IN  IF s.result.raised
            THEN [m1 EXCEPT !.events = l \o s.events
                                \o <<send_error("Discovery search failed", c)>>]
            ELSE IF s.result.value = <<>>
            THEN [m1 EXCEPT !.discovered_stations = <<>>,
                            !.events = l \o s.events
                                \o <<log("warn", "No stations found with daily data near", c),
                                     send_error("No stations found with daily data near", c)>>]
            ELSE [m1 EXCEPT !.discovered_stations = s.result.value,
                            !.step = 2,
                            !.events = l \o s.events]

\* MscStep2 that stays at step 2 when the selected station is not found.
MscStep2_stay_on_lost(m, res, fo) ==
    IF res.t # "dict" \/ res.station = <<>> THEN [m EXCEPT !.pc = "crashed"]   \* res["station"]
    ELSE
    LET selected_id == res.station[1]
    IN  IF \A i \in 1..Len(m.discovered_stations) : m.discovered_stations[i] # selected_id
        THEN [m EXCEPT !.events = <<send_error("Selection lost. Please try again.", selected_id)>>]
        ELSE
        LET m1 == [m EXCEPT !.station = <<selected_id>>,
                            !.state_start_date = m.start_date,
                            !.state_end_date = m.end_date]
            l == <<log("info", "Selected. Fetching full data set...", selected_id)>>
            f == fetch_daily_data(selected_id, m.start_date, m.end_date, fo)
        IN  IF f.result.raised
            THEN [m1 EXCEPT !.step = 1,
                            !.events = l \o f.events
                                \o <<send_error("Final data fetch failed", selected_id)>>]
            ELSE IF f.result.value = <<>>
            THEN [m1 EXCEPT !.observations = <<>>,
                            !.step = 1,
                            !.events = l \o f.events
                                \o <<send_error("Station verification failed: no actual observations returned.", selected_id)>>]
            ELSE [m1 EXCEPT !.observations = f.result.value,
                            !.pc = "idle",
                            !.initialized = TRUE,
                            !.events = l \o f.events
                                \o <<log("info", "Loaded daily observations", Len(f.result.value)),
                                     send_result("initialized")>>]

\* MscStep2 without the test `if not state.observations`: an empty fetch succeeds.
MscStep2_accept_empty(m, res, fo) ==
    IF res.t # "dict" \/ res.station = <<>> THEN [m EXCEPT !.pc = "crashed"]   \* res["station"]
    ELSE
    LET selected_id == res.station[1]
    IN  IF \A i \in 1..Len(m.discovered_stations) : m.discovered_stations[i] # selected_id
        THEN [m EXCEPT !.step = 1,
                       !.events = <<send_error("Selection lost. Please try again.", selected_id)>>]
        ELSE
        LET m1 == [m EXCEPT !.station = <<selected_id>>,
                            !.state_start_date = m.start_date,
                            !.state_end_date = m.end_date]
            l == <<log("info", "Selected. Fetching full data set...", selected_id)>>
            f == fetch_daily_data(selected_id, m.start_date, m.end_date, fo)
        IN  IF f.result.raised
            THEN [m1 EXCEPT !.step = 1,
                            !.events = l \o f.events
                                \o <<send_error("Final data fetch failed", selected_id)>>]
            ELSE [m1 EXCEPT !.observations = f.result.value,
                            !.pc = "idle",
                            !.initialized = TRUE,
                            !.events = l \o f.events
                                \o <<log("info", "Loaded daily observations", Len(f.result.value)),
                                     send_result("initialized")>>]

\* handle_initialize, step 2, for a submitted form `res`.
MscStep2(m, res, fo) ==
    IF res.t # "dict" \/ res.station = <<>> THEN [m EXCEPT !.pc = "crashed"]   \* res["station"]
    ELSE
    LET selected_id == res.station[1]
    IN  IF \A i \in 1..Len(m.discovered_stations) : m.discovered_stations[i] # selected_id
        THEN [m EXCEPT !.step = 1,
                       !.events = <<send_error("Selection lost. Please try again.", selected_id)>>]
        ELSE
        LET m1 == [m EXCEPT !.station = <<selected_id>>,
                            !.state_start_date = m.start_date,
                            !.state_end_date = m.end_date]
            l == <<log("info", "Selected. Fetching full data set...", selected_id)>>
            f == fetch_daily_data(selected_id, m.start_date, m.end_date, fo)
        IN  IF f.result.raised
            THEN [m1 EXCEPT !.step = 1,
                            !.events = l \o f.events
                                \o <<send_error("Final data fetch failed", selected_id)>>]
            ELSE IF f.result.value = <<>>
            THEN [m1 EXCEPT !.observations = <<>>,
                            !.step = 1,
                            !.events = l \o f.events
                                \o <<send_error("Station verification failed: no actual observations returned.", selected_id)>>]
            ELSE [m1 EXCEPT !.observations = f.result.value,
                            !.pc = "idle",
                            !.initialized = TRUE,
                            !.events = l \o f.events
                                \o <<log("info", "Loaded daily observations", Len(f.result.value)),
                                     send_result("initialized")>>]

\* MscPass with `continue` in place of `break` after a cancellation.
MscPass_cancel_continues(m, v, so, fo) ==
    LET r == IF Falsy(v) THEN [m EXCEPT !.pc = "idle"]
             ELSE IF InRaises(v) THEN [m EXCEPT !.pc = "crashed"]
             ELSE IF HasResult(v)
                  THEN IF m.step = 1 THEN MscStep1(m, v.result[1], so)
                       ELSE MscStep2(m, v.result[1], fo)
             ELSE IF HasError(v)
                  THEN [m EXCEPT !.events = <<log("info", "Discovery cancelled", 0),
                                              send_error("cancelled", 0)>>]
             ELSE m
    IN  IF r.pc = "wf"
        THEN [r EXCEPT !.events = @ \o <<MscForm(r.step, r.coords, r.start_date,
                                                 r.end_date, r.discovered_stations)>>]
        ELSE r

\* MscPass that reads again without a form after a message that is neither
\* a result nor an error.
MscPass_no_form_on_other(m, v, so, fo) ==
    LET r == IF Falsy(v) THEN [m EXCEPT !.pc = "idle"]
             ELSE IF InRaises(v) THEN [m EXCEPT !.pc = "crashed"]
             ELSE IF HasResult(v)
                  THEN IF m.step = 1 THEN MscStep1(m, v.result[1], so)
                       ELSE MscStep2(m, v.result[1], fo)
             ELSE IF HasError(v)
                  THEN [m EXCEPT !.pc = "idle",
                                 !.events = <<log("info", "Discovery cancelled", 0),
                                              send_error("cancelled", 0)>>]
             ELSE m
    IN  IF r.pc = "wf" /\ (HasResult(v) \/ HasError(v))
        THEN [r EXCEPT !.events = @ \o <<MscForm(r.step, r.coords, r.start_date,
                                                 r.end_date, r.discovered_stations)>>]
        ELSE r

\* One pass of handle_initialize's loop from the value read_request returned
\* to the next read_request: the new values, with the form of the next pass.
MscPass(m, v, so, fo) ==
    LET r == IF Falsy(v) THEN [m EXCEPT !.pc = "idle"]
             ELSE IF InRaises(v) THEN [m EXCEPT !.pc = "crashed"]
             ELSE IF HasResult(v)
                  THEN IF m.step = 1 THEN MscStep1(m, v.result[1], so)
                       ELSE MscStep2(m, v.result[1], fo)
             ELSE IF HasError(v)
                  THEN [m EXCEPT !.pc = "idle",
                                 !.events = <<log("info", "Discovery cancelled", 0),
                                              send_error("cancelled", 0)>>]
             ELSE m
    IN  IF r.pc = "wf"
        THEN [r EXCEPT !.events = @ \o <<MscForm(r.step, r.coords, r.start_date,
                                                 r.end_date, r.discovered_stations)>>]
        ELSE r

(***************************************************************************)
(* The Open Meteo downloader: cache.py (ClimateCache).                     *)
(* cities is a set of rows [id, name, loc]; daily a set of rows            *)
(* [city_id, date, tmean, tmin, tmax], one per (city_id, date).            *)
(***************************************************************************)
CityNames == {"Calgary", "Banff"}
\* Days by which the archive lags (cache.py, has_date_range).
SourceLag == 7

SetMax(S) == CHOOSE x \in S : \A y \in S : y <= x
SetMin(S) == CHOOSE x \in S : \A y \in S : x <= y

\* ClimateCache._get_city_id: <<>> (None) or <<id>>
get_city_id(cities, name) ==
    IF \E r \in cities : r.name = name
    THEN <<(CHOOSE r \in cities : r.name = name).id>>
    ELSE <<>>

\* ClimateCache.get_city_location: <<>> (None) or <<loc>>
get_city_location(cities, name) ==
    IF \E r \in cities : r.name = name
    THEN <<(CHOOSE r \in cities : r.name = name).loc>>
    ELSE <<>>

\* save_city as INSERT OR REPLACE: the row of a saved name is deleted and
\* inserted again, with a new id.
save_city_replace(cities, name, loc) ==
    {r \in cities : r.name # name}
    \cup {[id |-> IF cities = {} THEN 1 ELSE SetMax({r.id : r \in cities}) + 1,
           name |-> name, loc |-> loc]}

\* ClimateCache.save_city: insert, or update the coordinates of the row with
\* that name; the new table.
save_city(cities, name, loc) ==
    IF \E r \in cities : r.name = name
    THEN {IF r.name = name THEN [r EXCEPT !.loc = loc] ELSE r : r \in cities}
    ELSE cities \cup {[id |-> IF cities = {} THEN 1 ELSE SetMax({r.id : r \in cities}) + 1,
                       name |-> name, loc |-> loc]}

\* has_date_range that ignores the lag of the archive: the cached rows must
\* reach the end date itself.
has_date_range_no_lag(cities, daily, city_name, sd, ed) ==
    LET cid == get_city_id(cities, city_name)
    IN  IF cid = <<>> THEN FALSE
        ELSE LET dates == {r.date : r \in {x \in daily : x.city_id = cid[1]}}
             IN  IF dates = {} THEN FALSE
                 ELSE SetMin(dates) <= sd /\ SetMax(dates) >= ed

\* ClimateCache.has_date_range
has_date_range(cities, daily, city_name, sd, ed) ==
    LET cid == get_city_id(cities, city_name)
    IN  IF cid = <<>> THEN FALSE
        ELSE LET dates == {r.date : r \in {x \in daily : x.city_id = cid[1]}}
             IN  IF dates = {} THEN FALSE
                 ELSE LET lag_int == Today - SourceLag
                          target_end_date == IF ed < lag_int THEN ed ELSE lag_int
                      IN  SetMin(dates) <= sd /\ SetMax(dates) >= target_end_date

\* A DataFrame row.
Row(date, tmean, tmin, tmax) == [date |-> date, tmean |-> tmean, tmin |-> tmin, tmax |-> tmax]

\* get_daily_data with `date >= ? AND date < ?`: the end date is left out.
get_daily_data_open_end(cities, daily, city_name, sd, ed) ==
    LET cid == get_city_id(cities, city_name)
    IN  IF cid = <<>> THEN <<>>
        ELSE LET rows == {r \in daily : r.city_id = cid[1] /\ sd <= r.date /\ r.date < ed}
                 dates == Ascending({r.date : r \in rows})
             IN  [i \in 1..Len(dates) |->
                    LET r == CHOOSE x \in rows : x.date = dates[i]
                    IN  Row(r.date, r.tmean, r.tmin, r.tmax)]

\* ClimateCache.get_daily_data: the rows of the city between the dates, sorted by date.
get_daily_data(cities, daily, city_name, sd, ed) ==
    LET cid == get_city_id(cities, city_name)
    IN  IF cid = <<>> THEN <<>>
        ELSE LET rows == {r \in daily : r.city_id = cid[1] /\ sd <= r.date /\ r.date <= ed}
                 dates == Ascending({r.date : r \in rows})
             IN  [i \in 1..Len(dates) |->
                    LET r == CHOOSE x \in rows : x.date = dates[i]
                    IN  Row(r.date, r.tmean, r.tmin, r.tmax)]

RECURSIVE Upsert_keep_first(_, _, _)
\* Upsert as INSERT OR IGNORE: a row already cached for the day is kept.
Upsert_keep_first(daily, cid, df) ==
    IF df = <<>> THEN daily
    ELSE LET r == Head(df)
         IN  Upsert_keep_first(
                 IF \E x \in daily : x.city_id = cid /\ x.date = r.date THEN daily
                 ELSE daily \cup {[city_id |-> cid, date |-> r.date, tmean |-> r.tmean,
                                   tmin |-> r.tmin, tmax |-> r.tmax]},
                 cid, Tail(df))

RECURSIVE Upsert(_, _, _)
\* INSERT ... ON CONFLICT(city_id, date) DO UPDATE, row after row.
Upsert(daily, cid, df) ==
    IF df = <<>> THEN daily
    ELSE LET r == Head(df)
         IN  Upsert({x \in daily : ~(x.city_id = cid /\ x.date = r.date)}
                        \cup {[city_id |-> cid, date |-> r.date, tmean |-> r.tmean,
                               tmin |-> r.tmin, tmax |-> r.tmax]},
                    cid, Tail(df))

\* save_daily without the test `if cid is None`: the rows of a name that
\* was never saved are stored under the id 0.
save_daily_without_city(cities, daily, city_name, df) ==
    IF df = <<>> THEN daily
    ELSE LET cid == get_city_id(cities, city_name)
         IN  Upsert(daily, Get(cid, 0), df)

\* ClimateCache.save_daily: the new daily table.
save_daily(cities, daily, city_name, df) ==
    IF df = <<>> THEN daily
    ELSE LET cid == get_city_id(cities, city_name)
         IN  IF cid = <<>> THEN daily ELSE Upsert(daily, cid[1], df)

(***************************************************************************)
(* history.py                                                              *)
(***************************************************************************)
MaxHistory == 15

Search(cities, sd, ed) == [cities |-> cities, start_date |-> sd, end_date |-> ed]

\* log_search that puts the new entry in front and removes nothing.
log_search_no_dedup(h, cities, sd, ed) ==
    LET filtered == <<Search(cities, sd, ed)>> \o h
    IN  SubSeq(filtered, 1, IF Len(filtered) < MaxHistory THEN Len(filtered) ELSE MaxHistory)

\* history.log_search: the new history.
log_search(h, cities, sd, ed) ==
    LET new_entry == Search(cities, sd, ed)
        keep(x) == ~(x.cities = cities /\ x.start_date = sd /\ x.end_date = ed)
        filtered == <<new_entry>> \o SelectSeq(h, keep)
    IN  SubSeq(filtered, 1, IF Len(filtered) < MaxHistory THEN Len(filtered) ELSE MaxHistory)

(***************************************************************************)
(* The Open Meteo downloader: open_meteo.py, the remote clients.           *)
(***************************************************************************)
\* geocode_city raises (raise_for_status, a timeout), finds nothing (None)
\* or returns coordinates.
CalgaryLoc == <<51, -114>>
GeocodeOutcomes == {Raise, Return(<<>>), Return(<<CalgaryLoc>>)}

\* fetch_historical raises, returns an empty DataFrame, or the rows of the
\* first and last day asked for (the last not after today).
FetchKinds == {"raise", "empty", "rows"}
fetch_historical(loc, sd, ed, kind) ==
    IF kind = "raise" THEN Raise
    ELSE IF kind = "empty" THEN Return(<<>>)
    ELSE LET target_end_date == IF ed < Today THEN ed ELSE Today
             dates == Ascending({d \in {sd, target_end_date} : sd <= d /\ d <= target_end_date})
         IN  Return([i \in 1..Len(dates) |-> Row(dates[i], 5, 1, 9)])

(***************************************************************************)
(* The Open Meteo downloader: main.py.                                     *)
(***************************************************************************)
\* str.strip() of the city names a form can submit
Strip(c) == IF c = " Banff " THEN "Banff" ELSE IF c = " " THEN "" ELSE c

\* state.data[city] = df
Put(data, city, df) == [c \in DOMAIN data \cup {city} |-> IF c = city THEN df ELSE data[c]]
EmptyData == [c \in {} |-> <<>>]

\* What the helpers below read and change: the cache tables, state.data,
\* the writes and calls so far, and whether an exception is propagating.
OmStore == [cities |-> cache_cities, daily |-> cache_daily, data |-> om_data,
            events |-> <<>>, raised |-> FALSE]

\* `loc = cache.get_city_location(city); if not loc: loc = geocode_city(city);
\*  if loc: cache.save_city(...)`: the store afterwards and loc.
Locate(st, city, geo) ==
    LET cached == get_city_location(st.cities, city)
        st0 == [st EXCEPT !.events = @ \o <<call("get_city_location", city, Return(cached))>>]
    IN  IF cached # <<>> THEN [store |-> st0, loc |-> cached]
        ELSE LET o == geo[city]
                 st1 == [st0 EXCEPT !.events = @ \o <<call("geocode_city", city, o)>>]
             IN  IF o.raised THEN [store |-> [st1 EXCEPT !.raised = TRUE], loc |-> <<>>]
                 ELSE IF o.value = <<>> THEN [store |-> st1, loc |-> <<>>]
                 ELSE [store |-> [st1 EXCEPT !.cities = save_city(@, city, o.value[1])],
                       loc |-> o.value]

RECURSIVE geocode_city_list(_, _, _)
\* geocode_city_list: the store afterwards and the markers.
geocode_city_list(st, cities, geo) ==
    IF cities = <<>> \/ st.raised THEN [store |-> st, markers |-> <<>>]
    ELSE LET city == Strip(Head(cities))
         IN  IF city = "" THEN geocode_city_list(st, Tail(cities), geo)
             ELSE LET l == Locate(st, city, geo)
                      rest == geocode_city_list(l.store, Tail(cities), geo)
                  IN  [store |-> rest.store,
                       markers |-> (IF l.loc # <<>>
                                    THEN <<[loc |-> l.loc[1], popup |-> city]>>
                                    ELSE <<>>) \o rest.markers]

\* The rest of load_city_data once `loc` is settled: `if not loc: send_error;
\* return False`, then the fetch, the merge into the cache and the read-back.
fetch_city_data(l, city, sd, ed, fetch) ==
    LET s1 == l.store
    IN  IF s1.raised THEN [store |-> s1, ok |-> FALSE]
        ELSE IF l.loc = <<>>
        THEN [store |-> [s1 EXCEPT !.events = @ \o <<send_error("Could not calculate coordinates for", city)>>],
              ok |-> FALSE]
        ELSE
        LET o == fetch_historical(l.loc[1], sd, ed, fetch[city])
            s2 == [s1 EXCEPT !.events = @ \o <<log("info", "Fetching open-meteo for", city),
                                               call("fetch_historical", city, o)>>]
        IN  IF o.raised
            THEN [store |-> [s2 EXCEPT !.events = @ \o <<send_error("Failed fetching", city)>>],
                  ok |-> FALSE]
            ELSE IF o.value = <<>>
            THEN [store |-> [s2 EXCEPT !.events = @ \o <<log("warn", "No data returned for", city)>>],
                  ok |-> TRUE]
            ELSE LET daily2 == save_daily(s2.cities, s2.daily, city, o.value)
                 IN  [store |-> [s2 EXCEPT !.daily = daily2,
                                           !.data = Put(@, city, get_daily_data(s2.cities, daily2, city, sd, ed))],
                      ok |-> TRUE]

\* load_city_data that does not ask the cache whether the range is covered.
load_city_data_always_fetch(st, city, sd, ed, geo, fetch) ==
    fetch_city_data(Locate([st EXCEPT !.events = @ \o <<log("info", "Geocoding", city)>>], city, geo),
                    city, sd, ed, fetch)

\* load_city_data: the store afterwards and the value returned.
load_city_data(st, city, sd, ed, geo, fetch) ==
    IF has_date_range(st.cities, st.daily, city, sd, ed)
    THEN [store |-> [st EXCEPT !.events = @ \o <<log("info", "Using cached data for", city)>>,
                               !.data = Put(@, city, get_daily_data(st.cities, st.daily, city, sd, ed))],
          ok |-> TRUE]
    ELSE fetch_city_data(Locate([st EXCEPT !.events = @ \o <<log("info", "Geocoding", city)>>], city, geo),
                         city, sd, ed, fetch)

RECURSIVE LoadAll(_, _, _, _, _, _)
\* `if not load_city_data(...): return False`, then the cities that follow.
LoadRest(r, cities, sd, ed, geo, fetch) ==
    IF ~r.ok THEN r ELSE LoadAll(r.store, cities, sd, ed, geo, fetch)

\* `for city in cities: if not load_city_data(...): return False`
LoadAll(st, cities, sd, ed, geo, fetch) ==
    IF cities = <<>> THEN [store |-> st, ok |-> TRUE]
    ELSE LoadRest(load_city_data(st, Head(cities), sd, ed, geo, fetch),
                  Tail(cities), sd, ed, geo, fetch)

RECURSIVE StripAll(_)
\* [c.strip() for c in cities if c.strip()]
StripAll(cities) ==
    IF cities = <<>> THEN <<>>
    ELSE (IF Strip(Head(cities)) # "" THEN <<Strip(Head(cities))>> ELSE <<>>)
         \o StripAll(Tail(cities))

\* The values process_form_submit and process_form_change work on.
OmVars ==
    [pc |-> pc, store |-> OmStore, history |-> history,
     cities |-> om_cities, start_date |-> om_start_date, end_date |-> om_end_date,
     mode |-> om_mode, last_cities |-> last_cities, last_search_type |-> last_search_type,
     search_maps |-> search_maps, initialized |-> initialized]

Emit(m, evs) == [m EXCEPT !.store.events = @ \o evs]

\* The end of process_form_submit, r being what the loop over the cities
\* left: `return False` if a city failed, else the history entry and
\* `state.cities = cities` ... `return True`.
form_submitted(m1, r, stripped, sd, ed, mode) ==
    LET m2 == [m1 EXCEPT !.store = r.store]
    IN  IF r.store.raised THEN [m |-> [m2 EXCEPT !.pc = "crashed"], ok |-> FALSE]
        ELSE IF ~r.ok THEN [m |-> m2, ok |-> FALSE]
        ELSE [m |-> [m2 EXCEPT !.history = log_search(@, stripped, sd, ed),
                               !.cities = stripped,
                               !.start_date = sd,
                               !.end_date = ed,
                               !.mode = mode],
              ok |-> TRUE]

\* process_form_submit comparing the dates with `>`: equal dates pass.
process_form_submit_equal_dates(m, res, def_start, def_end, geo, fetch) ==
    IF res.t # "dict" THEN [m |-> [m EXCEPT !.pc = "crashed"], ok |-> FALSE]
    ELSE
    LET cities == Get(res.cities, <<>>)
        sd == Get(res.start_date, def_start)
        ed == Get(res.end_date, def_end)
        mode == Get(res.mode, "Daily")
    IN  IF sd > ed
        THEN [m |-> Emit(m, <<send_error("Start date must be before end date.", 0)>>), ok |-> FALSE]
        ELSE
        LET stripped == StripAll(cities)
        IN  IF stripped = <<>>
            THEN [m |-> Emit(m, <<send_error("At least one valid city is required.", 0)>>), ok |-> FALSE]
            ELSE
            LET m1 == Emit(m, <<log("info", "Processing", stripped)>>)
            IN  form_submitted(m1, LoadAll(m1.store, stripped, sd, ed, geo, fetch),
                               stripped, sd, ed, mode)

\* process_form_submit: the new values and the value returned.
process_form_submit(m, res, def_start, def_end, geo, fetch) ==
    IF res.t # "dict" THEN [m |-> [m EXCEPT !.pc = "crashed"], ok |-> FALSE]   \* res.get
    ELSE
    LET cities == Get(res.cities, <<>>)
        sd == Get(res.start_date, def_start)
        ed == Get(res.end_date, def_end)
        mode == Get(res.mode, "Daily")
    IN  IF sd >= ed
        THEN [m |-> Emit(m, <<send_error("Start date must be before end date.", 0)>>), ok |-> FALSE]
        ELSE
        LET stripped == StripAll(cities)
        IN  IF stripped = <<>>
            THEN [m |-> Emit(m, <<send_error("At least one valid city is required.", 0)>>), ok |-> FALSE]
            ELSE
            LET m1 == Emit(m, <<log("info", "Processing", stripped)>>)
            IN  form_submitted(m1, LoadAll(m1.store, stripped, sd, ed, geo, fetch),
                               stripped, sd, ed, mode)

RECURSIVE Options(_, _)
\* get_history_options: the labels of the past searches, each once, with the
\* search a label stands for (the first that has it), in the order of the history.
Options(past_searches, seen) ==
    IF past_searches = <<>> THEN <<>>
    ELSE LET label == Label(Head(past_searches))
         IN  IF label \in seen THEN Options(Tail(past_searches), seen)
             ELSE <<[label |-> label, search |-> Head(past_searches)]>>
                  \o Options(Tail(past_searches), seen \cup {label})
get_history_options(h) == Options(h, {NewSearch})

InMaps(maps, label) == \E i \in 1..Len(maps) : maps[i].label = label
Lookup(maps, label) == maps[CHOOSE i \in 1..Len(maps) : maps[i].label = label].search

\* protocol.send_form_update(data=...)
send_form_update(data) == Ev("form_update", "", "", data)
\* protocol.send_response({})
send_ack == Ev("ack", "", "", 0)

\* process_form_change that geocodes the city list of every form change,
\* changed or not.
process_form_change_always_geocode(m, v, geo) ==
    LET new_data == Get(v.data, FormData(<<>>, <<>>))
        curr_search == Get(new_data.search_type, NewSearch)
        search_changed == curr_search # m.last_search_type
        preset == search_changed /\ curr_search # NewSearch /\ InMaps(m.search_maps, curr_search)
        s == IF preset THEN Lookup(m.search_maps, curr_search) ELSE Search(<<>>, 0, 0)
        curr_cities == IF preset THEN s.cities ELSE Get(new_data.cities, <<>>)
        g == geocode_city_list(m.store, curr_cities, geo)
        sent == [cities |-> IF preset THEN <<s.cities>> ELSE new_data.cities,
                 search_type |-> new_data.search_type,
                 start_date |-> IF preset THEN <<s.start_date>> ELSE <<>>,
                 end_date |-> IF preset THEN <<s.end_date>> ELSE <<>>,
                 map_markers |-> <<g.markers>>]
        m1 == [m EXCEPT !.last_search_type = curr_search,
                        !.last_cities = curr_cities,
                        !.store = g.store]
    IN  IF g.store.raised THEN [m1 EXCEPT !.pc = "crashed"]
        ELSE Emit(m1, <<send_form_update(sent)>>)

\* process_form_change: the new values.
process_form_change(m, v, geo) ==
    LET new_data == Get(v.data, FormData(<<>>, <<>>))
        curr_search == Get(new_data.search_type, NewSearch)
        search_changed == curr_search # m.last_search_type
        preset == search_changed /\ curr_search # NewSearch /\ InMaps(m.search_maps, curr_search)
        s == IF preset THEN Lookup(m.search_maps, curr_search) ELSE Search(<<>>, 0, 0)
        curr_cities == IF preset THEN s.cities ELSE Get(new_data.cities, <<>>)
        cities_changed == curr_cities # m.last_cities
        g == IF cities_changed THEN geocode_city_list(m.store, curr_cities, geo)
             ELSE [store |-> m.store, markers |-> <<>>]
        sent == [cities |-> IF preset THEN <<s.cities>> ELSE new_data.cities,
                 search_type |-> new_data.search_type,
                 start_date |-> IF preset THEN <<s.start_date>> ELSE <<>>,
                 end_date |-> IF preset THEN <<s.end_date>> ELSE <<>>,
                 map_markers |-> IF cities_changed THEN <<g.markers>> ELSE <<>>]
        m1 == [m EXCEPT !.last_search_type = IF search_changed THEN curr_search ELSE @,
                        !.last_cities = IF cities_changed THEN curr_cities ELSE @,
                        !.store = g.store]
    IN  IF g.store.raised THEN [m1 EXCEPT !.pc = "crashed"]
        ELSE IF preset \/ cities_changed THEN Emit(m1, <<send_form_update(sent)>>)
        ELSE Emit(m1, <<send_ack>>)

\* `if process_form_submit(...): log; send_response({"result": "initialized"});
\*  return`, r being what process_form_submit left; otherwise the loop goes on.
om_after_submit(r) ==
    IF r.ok
    THEN [Emit(r.m, <<log("info", "Loaded data for cities.", Cardinality(DOMAIN r.m.store.data)),
                      send_result("initialized")>>)
              EXCEPT !.pc = "idle", !.initialized = TRUE]
    ELSE r.m

\* OmPass with a `break` for a message that is no form change, result or error.
OmPass_break_on_other(m, v, geo, fetch) ==
    IF Falsy(v) THEN [m EXCEPT !.pc = "idle"]
    ELSE IF GetRaises(v) THEN [m EXCEPT !.pc = "crashed"]
    ELSE IF v.method = <<"form_change">> THEN process_form_change(m, v, geo)
    ELSE IF HasResult(v)
         THEN om_after_submit(process_form_submit(m, v.result[1], DefaultStartOm, DefaultEndOm,
                                                  geo, fetch))
    ELSE IF HasError(v)
         THEN [Emit(m, <<log("info", "Configuration cancelled", 0), send_error("cancelled", 0)>>)
                   EXCEPT !.pc = "idle"]
    ELSE [m EXCEPT !.pc = "idle"]

\* One pass of the loop of handle_initialize (open meteo), from the value
\* read_request returned to the next read_request.
OmPass(m, v, geo, fetch) ==
    IF Falsy(v) THEN [m EXCEPT !.pc = "idle"]
    ELSE IF GetRaises(v) THEN [m EXCEPT !.pc = "crashed"]            \* req.get("method")
    ELSE IF v.method = <<"form_change">> THEN process_form_change(m, v, geo)
    ELSE IF HasResult(v)
         THEN om_after_submit(process_form_submit(m, v.result[1], DefaultStartOm, DefaultEndOm,
                                                  geo, fetch))
    ELSE IF HasError(v)
         THEN [Emit(m, <<log("info", "Configuration cancelled", 0), send_error("cancelled", 0)>>)
                   EXCEPT !.pc = "idle"]
    ELSE m

\* handle_initialize (open meteo) up to its first read_request.
OmEnter(m, geo) ==
    LET cities == <<"Calgary">>
        g == geocode_city_list(m.store, cities, geo)
        m1 == [m EXCEPT !.store = g.store]
        data == [search_type |-> NewSearch, cities |-> cities,
                 start_date |-> DefaultStartOm, end_date |-> DefaultEndOm,
                 map_markers |-> g.markers, mode |-> "Daily"]
    IN  IF g.store.raised THEN [m1 EXCEPT !.pc = "crashed"]
        ELSE [Emit(m1, <<send_show_form("Open Meteo Configuration", data, TRUE)>>)
                  EXCEPT !.pc = "wf",
                         !.search_maps = get_history_options(m.history),
                         !.last_cities = cities,
                         !.last_search_type = NewSearch]

(***************************************************************************)
(* The request handlers of the two plugins: what each writes.              *)
(***************************************************************************)
\* datetime.strptime(date, "%Y-%m-%d").timestamp()
Timestamp(date) == date * 86400

RECURSIVE MscValues(_, _)
\* handle_get_series_data (msc): the timestamp and value of every
\* observation that has the series' value.
MscValues(observations, series_id) ==
    IF observations = <<>> THEN <<>>
    ELSE LET obs == Head(observations)
             val == IF series_id = "mean_temp" THEN obs.mean_temp
                    ELSE IF series_id = "min_temp" THEN obs.min_temp
                    ELSE IF series_id = "max_temp" THEN obs.max_temp
                    ELSE <<>>
         IN  (IF val # <<>> THEN <<Timestamp(obs.date), val[1]>> ELSE <<>>)
             \o MscValues(Tail(observations), series_id)

msc_handle_get_chart_config ==
    IF msc_station = <<>> THEN <<send_error("Not initialized", 0)>>
    ELSE <<send_result([title |-> "Temperature History", station |-> msc_station[1]])>>

msc_handle_get_series_config ==
    <<send_result([prefix |-> msc_station, ids |-> <<"mean_temp", "min_temp", "max_temp">>])>>

msc_handle_get_series_data(series_id, preferred_storage) ==
    IF msc_observations = <<>> THEN <<send_error("No data available", 0)>>
    ELSE <<send_binary_data(MscValues(msc_observations, series_id), "interleaved")>>

om_handle_get_chart_config ==
    IF om_cities = <<>> THEN <<send_error("Not initialized", 0)>>
    ELSE <<send_result([title |-> IF Len(om_cities) <= 3
                                  THEN Join(om_cities) \o " Temperature History"
                                  ELSE "Climate Comparison"])>>

om_handle_get_series_config ==
    IF om_cities = <<>> THEN <<send_error("Not initialized", 0)>>
    ELSE <<send_result([i \in 1..Len(om_cities) |->
                [ids |-> <<om_cities[i] \o "_tmean", om_cities[i] \o "_tmin",
                           om_cities[i] \o "_tmax">>,
                 prefix |-> IF Len(om_cities) > 1 THEN om_cities[i] \o " " ELSE ""]])>>

\* series_id.split("_") of the series ids a request can carry: the number
\* of parts, "_".join(parts[:-1]) and parts[-1].
Split(series_id) ==
    IF series_id = "Calgary_tmean" THEN [n |-> 2, city |-> "Calgary", var_name |-> "tmean"]
    ELSE IF series_id = "Banff_tmin" THEN [n |-> 2, city |-> "Banff", var_name |-> "tmin"]
    ELSE IF series_id = "mean_temp" THEN [n |-> 2, city |-> "mean", var_name |-> "temp"]
    ELSE [n |-> 1, city |-> "", var_name |-> series_id]

\* The month a day number falls in, and the day number of its 15th.
MonthOf(date) == date \div 30
MidMonth(month) == month * 30 + 15

RECURSIVE Sum(_)
Sum(xs) == IF xs = <<>> THEN 0 ELSE Head(xs) + Sum(Tail(xs))

\* df.select(["date", var_name]): the <<date, value>> pairs of a DataFrame
Select(df, var_name) == [i \in 1..Len(df) |-> <<df[i].date, df[i][var_name]>>]

\* The "Monthly" mode: the mean of each month at its 15th, sorted by date.
Monthly(pairs) ==
    LET months == Ascending({MonthOf(pairs[i][1]) : i \in 1..Len(pairs)})
        of(mth) == SelectSeq(pairs, LAMBDA p : MonthOf(p[1]) = mth)
    IN  [i \in 1..Len(months) |->
            <<MidMonth(months[i]),
              Sum([j \in 1..Len(of(months[i])) |-> of(months[i])[j][2]]) \div Len(of(months[i]))>>]

RECURSIVE Interleave(_)
\* values.append(timestamp); values.append(val) for every row
Interleave(pairs) ==
    IF pairs = <<>> THEN <<>>
    ELSE <<Timestamp(Head(pairs)[1]), Head(pairs)[2]>> \o Interleave(Tail(pairs))

\* om_handle_get_series_data without the `return` after "Invalid series format".
om_handle_get_series_data_no_return(series_id, preferred_storage) ==
    IF DOMAIN om_data = {} THEN <<send_error("No data available", 0)>>
    ELSE LET parts == Split(series_id)
         IN  IF parts.n < 2
             THEN <<send_error("Invalid series format", 0),
                    send_error("Series or city not found", 0)>>
             ELSE IF parts.city \notin DOMAIN om_data
                     \/ parts.var_name \notin {"tmean", "tmin", "tmax"}
             THEN <<send_error("Series or city not found", 0)>>
             ELSE LET df == Select(om_data[parts.city], parts.var_name)
                      agg == IF om_mode = "Monthly" THEN Monthly(df) ELSE df
                  IN  <<send_binary_data(Interleave(agg), "interleaved")>>

om_handle_get_series_data(series_id, preferred_storage) ==
    IF DOMAIN om_data = {} THEN <<send_error("No data available", 0)>>
    ELSE LET parts == Split(series_id)
         IN  IF parts.n < 2 THEN <<send_error("Invalid series format", 0)>>
             ELSE IF parts.city \notin DOMAIN om_data
                     \/ parts.var_name \notin {"tmean", "tmin", "tmax"}
             THEN <<send_error("Series or city not found", 0)>>
             ELSE LET df == Select(om_data[parts.city], parts.var_name)
                      agg == IF om_mode = "Monthly" THEN Monthly(df) ELSE df
                  IN  <<send_binary_data(Interleave(agg), "interleaved")>>

(***************************************************************************)
(* The state machine.                                                      *)
(***************************************************************************)
GeoOracles == [CityNames -> GeocodeOutcomes]
FetchOracles == [CityNames -> FetchKinds]

\* A call of a function on its own: its name, its arguments, what it returned.
Call(name, args, result) == [name |-> name, args |-> args, result |-> result]
NoCall == Call("", <<>>, <<>>)

\* PluginState at the call of handle_initialize, for as long as it runs.
NoEntry(tracked) == [tracked |-> tracked, state |-> <<>>]
Entry(next_pc) ==
    IF ~entry.tracked \/ next_pc # "wf" THEN NoEntry(entry.tracked)
    ELSE IF pc = "wf" THEN entry
    ELSE [entry EXCEPT !.state = <<IF plugin = "msc" THEN mscState ELSE omState>>]

\* A workflow's variables do not outlive the call of handle_initialize.
NoMscLocals ==
    /\ step' = 0
    /\ coords' = DefaultCoords
    /\ start_date' = EmptyDate
    /\ end_date' = EmptyDate
    /\ discovered_stations' = <<>>
NoOmLocals ==
    /\ last_cities' = <<>>
    /\ last_search_type' = NewSearch
    /\ search_maps' = <<>>

InitWith(tracked) ==
    /\ plugin \in {"msc", "om"}
    /\ pc = "idle"
    /\ closed = FALSE
    /\ req = None
    /\ site = "none"
    /\ events = <<>>
    /\ initialized = FALSE
    /\ msc_station = <<>>
    /\ msc_start_date = EmptyDate
    /\ msc_end_date = EmptyDate
    /\ msc_observations = <<>>
    /\ step = 0
    /\ coords = DefaultCoords
    /\ start_date = EmptyDate
    /\ end_date = EmptyDate
    /\ discovered_stations = <<>>
    /\ om_cities = <<>>
    /\ om_start_date = EmptyDate
    /\ om_end_date = EmptyDate
    /\ om_mode = "Daily"
    /\ om_data = EmptyData
    /\ cache_cities = {}
    /\ cache_daily = {}
    /\ history = <<>>
    /\ last_cities = <<>>
    /\ last_search_type = NewSearch
    /\ search_maps = <<>>
    /\ op = NoCall
    /\ logged = [distinct |-> 0, repeated |-> 0]
    /\ entry = NoEntry(tracked)

\* The state when the process starts.
Init == InitWith(FALSE)

\* sys.stdin.readline() at `at`: "" at the end of the stream, and from then on.
Read(line, at) ==
    /\ pc = at
    /\ closed => line.t = "eof"
    /\ closed' = (line.t = "eof")
    /\ req' = read_request(line)
    /\ site' = at
    /\ UNCHANGED <<plugin, op, logged>>

\* Reply of a handler that resets state.cities before it returns.
Reply_drops_cities(evs) ==
    /\ events' = evs
    /\ pc' = "idle"
    /\ om_cities' = <<>>
    /\ UNCHANGED <<initialized, mscState, mscLocals, om_start_date, om_end_date, om_mode,
                   om_data, omStore, omLocals, entry>>

\* A handler that writes `evs` and returns to main's loop.
Reply(evs) ==
    /\ events' = evs
    /\ pc' = "idle"
    /\ UNCHANGED <<initialized, mscState, mscLocals, omState, omStore, omLocals, entry>>

\* main_exit with `continue` in place of `break`.
main_exit_continue(line) ==
    /\ Read(line, "idle")
    /\ Falsy(read_request(line))
    /\ events' = <<>>
    /\ pc' = "idle"
    /\ UNCHANGED <<initialized, mscState, mscLocals, omState, omStore, omLocals, entry>>

\* main: `if not req: break`
main_exit(line) ==
    /\ Read(line, "idle")
    /\ Falsy(read_request(line))
    /\ events' = <<>>
    /\ pc' = "done"
    /\ UNCHANGED <<initialized, mscState, mscLocals, omState, omStore, omLocals, entry>>

\* main: req.get of a value that is no mapping raises, nothing catches it
main_raise(line) ==
    /\ Read(line, "idle")
    /\ ~Falsy(read_request(line))
    /\ GetRaises(read_request(line))
    /\ events' = <<>>
    /\ pc' = "crashed"
    /\ UNCHANGED <<initialized, mscState, mscLocals, omState, omStore, omLocals, entry>>

\* The method of a mapping read by main.
Dispatch(line, methods) ==
    /\ Read(line, "idle")
    /\ ~Falsy(read_request(line))
    /\ ~GetRaises(read_request(line))
    /\ read_request(line).method \in methods

Known == {<<"info">>, <<"initialize">>, <<"get_chart_config">>,
          <<"get_series_config">>, <<"get_series_data">>}

main_info(line) ==
    /\ Dispatch(line, {<<"info">>})
    /\ Reply(<<send_info(IF plugin = "msc" THEN "MSC Climate Data" ELSE "Open Meteo Downloader")>>)

main_get_chart_config(line) ==
    /\ Dispatch(line, {<<"get_chart_config">>})
    /\ Reply(IF plugin = "msc" THEN msc_handle_get_chart_config ELSE om_handle_get_chart_config)

main_get_series_config(line) ==
    /\ Dispatch(line, {<<"get_series_config">>})
    /\ Reply(IF plugin = "msc" THEN msc_handle_get_series_config ELSE om_handle_get_series_config)

main_get_series_data(line) ==
    /\ Dispatch(line, {<<"get_series_data">>})
    /\ LET series_id == Get(read_request(line).series_id, "")
           preferred_storage == Get(read_request(line).preferred_storage, "interleaved")
       IN  Reply(IF plugin = "msc"
                 THEN msc_handle_get_series_data(series_id, preferred_storage)
                 ELSE om_handle_get_series_data(series_id, preferred_storage))

\* main_unknown without the else branch: an unknown method is dropped.
main_unknown_silent(line) ==
    /\ Read(line, "idle")
    /\ ~Falsy(read_request(line))
    /\ ~GetRaises(read_request(line))
    /\ read_request(line).method \notin Known
    /\ Reply(<<>>)

\* main: the else branch
main_unknown(line) ==
    /\ Read(line, "idle")
    /\ ~Falsy(read_request(line))
    /\ ~GetRaises(read_request(line))
    /\ read_request(line).method \notin Known
    /\ Reply(<<send_error("Unknown method: ", Str(read_request(line).method))>>)

\* The new values of the msc plugin's variables.
MscSet(m) ==
    /\ pc' = m.pc
    /\ events' = m.events
    /\ initialized' = m.initialized
    /\ msc_station' = m.station
    /\ msc_start_date' = m.state_start_date
    /\ msc_end_date' = m.state_end_date
    /\ msc_observations' = m.observations
    /\ IF m.pc = "wf"
       THEN /\ step' = m.step
            /\ coords' = m.coords
            /\ start_date' = m.start_date
            /\ end_date' = m.end_date
            /\ discovered_stations' = m.discovered_stations
       ELSE NoMscLocals
    /\ entry' = Entry(m.pc)
    /\ UNCHANGED <<omState, omStore, omLocals>>

\* msc_initialize that starts from the dates of the last successful workflow.
msc_initialize_dates_from_state(line) ==
    /\ plugin = "msc"
    /\ Dispatch(line, {<<"initialize">>})
    /\ LET sd == IF msc_start_date # EmptyDate THEN msc_start_date ELSE StartDefaultMsc
           ed == IF msc_end_date # EmptyDate THEN msc_end_date ELSE EndDefaultMsc
       IN  MscSet([MscVars EXCEPT
                     !.pc = "wf", !.step = 1, !.coords = DefaultCoords,
                     !.start_date = sd, !.end_date = ed,
                     !.discovered_stations = <<>>,
                     !.events = <<MscForm(1, DefaultCoords, sd, ed, <<>>)>>])

\* main calls handle_initialize (msc), which emits the step 1 form and reads.
msc_initialize(line) ==
    /\ plugin = "msc"
    /\ Dispatch(line, {<<"initialize">>})
    /\ MscSet([MscVars EXCEPT
                 !.pc = "wf", !.step = 1, !.coords = DefaultCoords,
                 !.start_date = StartDefaultMsc, !.end_date = EndDefaultMsc,
                 !.discovered_stations = <<>>,
                 !.events = <<MscForm(1, DefaultCoords, StartDefaultMsc, EndDefaultMsc, <<>>)>>])

\* handle_initialize (msc) reads a line and handles it.
msc_handle_initialize(line, so, fo) ==
    /\ plugin = "msc"
    /\ Read(line, "wf")
    /\ MscSet(MscPass(MscVars, read_request(line), so, fo))

\* The new values of the open meteo plugin's variables.
OmSet(m) ==
    /\ pc' = m.pc
    /\ events' = m.store.events
    /\ initialized' = m.initialized
    /\ om_cities' = m.cities
    /\ om_start_date' = m.start_date
    /\ om_end_date' = m.end_date
    /\ om_mode' = m.mode
    /\ om_data' = m.store.data
    /\ cache_cities' = m.store.cities
    /\ cache_daily' = m.store.daily
    /\ history' = m.history
    /\ IF m.pc = "wf"
       THEN /\ last_cities' = m.last_cities
            /\ last_search_type' = m.last_search_type
            /\ search_maps' = m.search_maps
       ELSE NoOmLocals
    /\ entry' = Entry(m.pc)
    /\ UNCHANGED <<mscState, mscLocals>>

\* main calls handle_initialize (open meteo), which geocodes the default
\* city, emits the form and reads.
om_initialize(line, geo) ==
    /\ plugin = "om"
    /\ Dispatch(line, {<<"initialize">>})
    /\ OmSet(OmEnter(OmVars, geo))

\* handle_initialize (open meteo) reads a line and handles it.
om_handle_initialize(line, geo, fetch) ==
    /\ plugin = "om"
    /\ Read(line, "wf")
    /\ OmSet(OmPass(OmVars, read_request(line), geo, fetch))

\* The lines worth sending to a plugin: every shape, with the result
\* payloads, form changes and series ids of its own forms and series.
LinesOf(p) ==
    {l \in Lines :
        l.t = "json" =>
            /\ l.v.result # <<>> =>
                 l.v.result[1] \in (IF p = "msc" THEN MscPayloads ELSE OmPayloads)
                                   \cup {NoPayload, [NoPayload EXCEPT !.t = "string"]}
            /\ l.v.data # <<>> => p = "om"
            /\ l.v.series_id # <<>> =>
                 l.v.series_id[1] \in (IF p = "msc" THEN {"mean_temp", "nosuch"}
                                       ELSE {"Calgary_tmean", "Banff_tmin", "nosuch"})}
LinesMsc == LinesOf("msc")
LinesOm == LinesOf("om")
LinesFor(p) == IF p = "msc" THEN LinesMsc ELSE LinesOm

\* The remote outcomes that can matter to a line: a remote client is only
\* called for a submitted or changed form and for the cities it names, the
\* archive only for a city whose coordinates are known.
RECURSIVE Range(_)
Range(seq) == IF seq = <<>> THEN {} ELSE {Head(seq)} \cup Range(Tail(seq))
Named(line) ==
    IF line.t # "json" THEN {}
    ELSE IF line.v.method = <<"form_change">>
    THEN IF InMaps(search_maps, Get(Get(line.v.data, FormData(<<>>, <<>>)).search_type, NewSearch))
         THEN CityNames
         ELSE Range(StripAll(Get(Get(line.v.data, FormData(<<>>, <<>>)).cities, <<>>)))
    ELSE IF HasResult(line.v)
    THEN Range(StripAll(Get(line.v.result[1].cities, <<>>)))
    ELSE {}
Found == Return(<<CalgaryLoc>>)
SearchFor(line) ==
    IF line.t = "json" /\ HasResult(line.v) /\ step = 1 THEN SearchOutcomes ELSE {Raise}
FetchDailyFor(line) ==
    IF line.t = "json" /\ HasResult(line.v) /\ step = 2 THEN FetchDailyOutcomes ELSE {Raise}
OraclesFor(cities, fetches) ==
    {o \in GeoOracles \X FetchOracles :
        \A c \in CityNames :
            /\ c \notin cities => o[1][c] = Found
            /\ ~fetches \/ o[1][c] # Found => o[2][c] = "rows"}
OraclesOf == [cities \in SUBSET CityNames |-> [fetches \in BOOLEAN |-> OraclesFor(cities, fetches)]]

Next ==
    \/ \E line \in LinesFor(plugin) : main_exit(line)
    \/ \E line \in LinesFor(plugin) : main_raise(line)
    \/ \E line \in LinesFor(plugin) : main_info(line)
    \/ \E line \in LinesFor(plugin) : main_get_chart_config(line)
    \/ \E line \in LinesFor(plugin) : main_get_series_config(line)
    \/ \E line \in LinesFor(plugin) : main_get_series_data(line)
    \/ \E line \in LinesFor(plugin) : main_unknown(line)
    \/ \E line \in LinesFor(plugin) : msc_initialize(line)
    \/ \E line \in LinesFor(plugin) :
          \E so \in SearchFor(line), fo \in FetchDailyFor(line) :
            msc_handle_initialize(line, so, fo)
    \/ \E line \in LinesFor(plugin) :
          \E g \in GeocodeOutcomes :
            om_initialize(line, [c \in CityNames |-> g])
    \/ \E line \in LinesFor(plugin) :
          \E o \in OraclesOf[Named(line)][line.t = "json" /\ HasResult(line.v)] :
            om_handle_initialize(line, o[1], o[2])

Spec == Init /\ [][Next]_vars

TypeOK ==
    /\ plugin \in {"msc", "om"}
    /\ pc \in {"idle", "wf", "done", "crashed"}
    /\ step \in 0..2

\* The process runs: a read at the end of the stream returns at once.
LiveSpec == Spec /\ WF_vars(closed /\ Next)

\* The behaviours of the Open Meteo plugin, keeping PluginState as it was
\* at the call of handle_initialize while the workflow runs.
EntryInit == InitWith(TRUE) /\ plugin = "om"
EntryNext ==
    \/ \E line \in LinesOm : main_exit(line)
    \/ \E line \in LinesOm : main_raise(line)
    \/ \E line \in LinesOm : main_info(line)
    \/ \E line \in LinesOm : main_get_chart_config(line)
    \/ \E line \in LinesOm : main_get_series_config(line)
    \/ \E line \in LinesOm : main_get_series_data(line)
    \/ \E line \in LinesOm : main_unknown(line)
    \/ \E line \in LinesOm :
          \E g \in GeocodeOutcomes :
            om_initialize(line, [c \in CityNames |-> g])
    \/ \E line \in LinesOm :
          \E o \in OraclesOf[Named(line)][line.t = "json" /\ HasResult(line.v)] :
            om_handle_initialize(line, o[1], o[2])
EntrySpec == EntryInit /\ [][EntryNext]_vars

(***************************************************************************)
(* The cache on its own: any sequence of calls of ClimateCache's methods,  *)
(* starting from the empty database _init_db creates.                      *)
(***************************************************************************)
\* Everything but the cache, the history and the last call.
session == <<plugin, pc, closed, req, site, events, initialized,
             mscState, mscLocals, omState, omLocals, entry>>

\* Coordinates a city is saved with.
OtherLoc == <<45, -75>>
Locs == {CalgaryLoc, OtherLoc}
\* The days of the cached rows and of the ranges asked for: around the day
\* the archive lags to.
CacheDays == {Today - SourceLag - 1, Today - SourceLag, Today - SourceLag + 1}
\* The days a range asked for starts on (it may end before it starts).
RangeStarts == {Today - SourceLag - 1, Today - SourceLag}
\* Rows of a DataFrame to save: two readings for the first day, one for the others.
CacheRows ==
    {Row(d, 5, 1, 9) : d \in CacheDays} \cup {Row(Today - SourceLag - 1, 6, 2, 10)}
\* DataFrames to save: empty, one row, two rows of one day, two rows of the
\* first and the last day (in either order).
Frames ==
    {<<>>} \cup {<<r>> : r \in CacheRows}
    \cup {f \in CacheRows \X CacheRows :
            /\ f[1] # f[2]
            /\ \/ f[1].date = f[2].date
               \/ {f[1], f[2]} = {Row(Today - SourceLag - 1, 5, 1, 9),
                                   Row(Today - SourceLag + 1, 5, 1, 9)}}

CacheInit == Init /\ plugin = "om"

\* cache.save_city(name, lat, lng), which returns the id it selects afterwards
cache_save_city(name, loc) ==
    /\ cache_cities' = save_city(cache_cities, name, loc)
    /\ op' = Call("save_city", <<name, loc>>, get_city_id(cache_cities', name))
    /\ UNCHANGED <<session, cache_daily, history, logged>>

\* cache.save_daily(city_name, df)
cache_save_daily(name, df) ==
    /\ cache_daily' = save_daily(cache_cities, cache_daily, name, df)
    /\ op' = Call("save_daily", <<name, df>>, <<>>)
    /\ UNCHANGED <<session, cache_cities, history, logged>>

\* cache.get_city_location(name)
cache_get_city_location(name) ==
    /\ op' = Call("get_city_location", <<name>>, get_city_location(cache_cities, name))
    /\ UNCHANGED <<session, omStore, logged>>

\* cache.has_date_range(city_name, start_date, end_date)
cache_has_date_range(name, sd, ed) ==
    /\ op' = Call("has_date_range", <<name, sd, ed>>,
                  has_date_range(cache_cities, cache_daily, name, sd, ed))
    /\ UNCHANGED <<session, omStore, logged>>

\* cache.get_daily_data(city_name, start_date, end_date)
cache_get_daily_data(name, sd, ed) ==
    /\ op' = Call("get_daily_data", <<name, sd, ed>>,
                  get_daily_data(cache_cities, cache_daily, name, sd, ed))
    /\ UNCHANGED <<session, omStore, logged>>

CacheNext ==
    \/ \E name \in CityNames, loc \in Locs : cache_save_city(name, loc)
    \/ \E name \in CityNames, df \in Frames : cache_save_daily(name, df)
    \/ \E name \in CityNames : cache_get_city_location(name)
    \/ \E name \in CityNames, sd \in RangeStarts, ed \in CacheDays :
          cache_has_date_range(name, sd, ed)
    \/ \E name \in CityNames, sd \in RangeStarts, ed \in CacheDays :
          cache_get_daily_data(name, sd, ed)

CacheSpec == CacheInit /\ [][CacheNext]_vars

(***************************************************************************)
(* The history on its own: any sequence of log_search calls, starting      *)
(* without a history file.                                                 *)
(***************************************************************************)
\* How many of the calls may repeat a search logged before.
MaxRelogs == 1
\* How many different searches are logged: enough to fill the history twice over.
NewSearches == MaxHistory + 2
\* The k-th new search.  Neighbours differ in one field only.
NthSearch(k) ==
    Search(IF k % 2 = 0 THEN <<"Banff">> ELSE <<"Calgary", "Banff">>,
           1 + ((k \div 2) % 3), 10 + (k \div 6))
\* The searches a call repeats: the first and the latest logged, the one
\* before the latest, and the oldest the history can still hold.
Again(n) == {k \in {1, n - 1, n, n - MaxHistory + 1} : 1 <= k /\ k <= n}

HistoryInit == Init /\ plugin = "om"

\* history.log_search(cities, start_date, end_date)
history_log_search(s) ==
    /\ history' = log_search(history, s.cities, s.start_date, s.end_date)
    /\ op' = Call("log_search", <<s.cities, s.start_date, s.end_date>>, <<>>)
    /\ UNCHANGED <<session, cache_cities, cache_daily>>

\* a search never logged before
history_log_new ==
    /\ logged.distinct < NewSearches
    /\ history_log_search(NthSearch(logged.distinct + 1))
    /\ logged' = [logged EXCEPT !.distinct = @ + 1]

\* a search logged before (it may have left the history since)
history_log_again(k) ==
    /\ logged.repeated < MaxRelogs
    /\ history_log_search(NthSearch(k))
    /\ logged' = [logged EXCEPT !.repeated = @ + 1]

\* history.get_past_searches()
history_get_past_searches ==
    /\ op.name = "log_search"
    /\ op' = Call("get_past_searches", <<>>, history)
    /\ UNCHANGED <<session, omStore, logged>>

HistoryNext ==
    \/ history_log_new
    \/ \E k \in Again(logged.distinct) : history_log_again(k)
    \/ history_get_past_searches

HistorySpec == HistoryInit /\ [][HistoryNext]_vars

(***************************************************************************)
(* The standard output: what each output record puts on it.                *)
(***************************************************************************)
\* sys.stdout.write(json.dumps(data) + "\n"): one line
Line(msg) == [stream |-> "line", msg |-> msg, size |-> 0, values |-> <<>>]
\* struct.pack("<{n}d", *values): eight bytes for each value
Packed(values) == [stream |-> "bytes", msg |-> <<>>, size |-> 8 * Len(values), values |-> values]
\* send_response writes a line, send_binary_data the header line and then
\* the packed values; a call of a remote client writes nothing.
Writes(e) ==
    IF e.kind = "call" THEN <<>>
    ELSE IF e.kind = "binary"
    THEN <<Line([type |-> "binary", length |-> e.arg.length, storage |-> e.text]),
           Packed(e.arg.values)>>
    ELSE <<Line([type |-> e.kind, length |-> 0, storage |-> ""])>>
RECURSIVE Wire(_)
Wire(evs) == IF evs = <<>> THEN <<>> ELSE Writes(Head(evs)) \o Wire(Tail(evs))

(***************************************************************************)
(* The codec on its own: send_response and read_request, character by      *)
(* character.  A text is a sequence of characters; a control message is a  *)
(* mapping of one key to a string.                                         *)
(***************************************************************************)
\* The longest string in a message.
MaxLen == 3
Quote == "dquote"
Backslash == "backslash"
Newline == "newline"
Chars == {"n", " ", Quote, Backslash, Newline}
Keys == {"error", "result"}
RECURSIVE Texts(_)
\* the strings of at most n characters
Texts(n) ==
    IF n = 0 THEN {<<>>}
    ELSE Texts(n - 1) \cup {<<c>> \o t : c \in Chars, t \in {x \in Texts(n - 1) : Len(x) = n - 1}}
Messages == {[key |-> k, value |-> v] : k \in Keys, v \in Texts(MaxLen)}

\* json.dumps of a string leaves a raw newline in it.
RECURSIVE json_escape_raw_newline(_)
json_escape_raw_newline(t) ==
    IF t = <<>> THEN <<>>
    ELSE (IF Head(t) \in {Quote, Backslash} THEN <<Backslash, Head(t)>> ELSE <<Head(t)>>)
         \o json_escape_raw_newline(Tail(t))

RECURSIVE json_escape(_)
\* json.dumps of a string, between the quotes: \" for a quote, \\ for a
\* backslash, \n for a newline
json_escape(t) ==
    IF t = <<>> THEN <<>>
    ELSE (IF Head(t) \in {Quote, Backslash} THEN <<Backslash, Head(t)>>
          ELSE IF Head(t) = Newline THEN <<Backslash, "n">>
          ELSE <<Head(t)>>)
         \o json_escape(Tail(t))

\* json.dumps(data)
json_dumps(m) ==
    <<"{", Quote, m.key, Quote, ":", " ", Quote>> \o json_escape(m.value) \o <<Quote, "}">>

\* send_response: sys.stdout.write(json.dumps(data) + "\n")
send_response(data) == json_dumps(data) \o <<Newline>>

RECURSIVE readline(_)
\* sys.stdin.readline(): up to the first newline, the newline included
readline(stream) ==
    IF stream = <<>> THEN <<>>
    ELSE IF Head(stream) = Newline THEN <<Newline>>
    ELSE <<Head(stream)>> \o readline(Tail(stream))

RECURSIVE lstrip(_)
lstrip(t) == IF t # <<>> /\ Head(t) \in {" ", Newline} THEN lstrip(Tail(t)) ELSE t
RECURSIVE rstrip(_)
rstrip(t) ==
    IF t # <<>> /\ t[Len(t)] \in {" ", Newline} THEN rstrip(SubSeq(t, 1, Len(t) - 1)) ELSE t
\* line.strip()
strip(t) == rstrip(lstrip(t))

ParseFail == [ok |-> FALSE, value |-> <<>>, rest |-> <<>>]
RECURSIVE ParseString(_)
\* json.loads on a string, after its opening quote: the string and the text
\* behind its closing quote.  A raw newline, a backslash before anything but
\* a quote, a backslash or n, and a missing closing quote are errors.
ParseString(s) ==
    IF s = <<>> \/ Head(s) = Newline THEN ParseFail
    ELSE IF Head(s) = Quote THEN [ok |-> TRUE, value |-> <<>>, rest |-> Tail(s)]
    ELSE IF Head(s) = Backslash
    THEN IF Len(s) < 2 \/ s[2] \notin {Quote, Backslash, "n"} THEN ParseFail
         ELSE LET r == ParseString(SubSeq(s, 3, Len(s)))
              IN  IF r.ok
                  THEN [r EXCEPT !.value = <<IF s[2] = "n" THEN Newline ELSE s[2]>> \o @]
                  ELSE ParseFail
    ELSE LET r == ParseString(Tail(s))
         IN  IF r.ok THEN [r EXCEPT !.value = <<Head(s)>> \o @] ELSE ParseFail

\* json.loads(text): the mapping, or nothing (JSONDecodeError)
json_loads(text) ==
    IF /\ Len(text) >= 7
       /\ SubSeq(text, 1, 2) = <<"{", Quote>>
       /\ text[3] \in Keys
       /\ SubSeq(text, 4, 7) = <<Quote, ":", " ", Quote>>
    THEN LET r == ParseString(SubSeq(text, 8, Len(text)))
         IN  IF r.ok /\ r.rest = <<"}">> THEN <<[key |-> text[3], value |-> r.value]>>
             ELSE <<>>
    ELSE <<>>

\* read_request on an input stream: None is <<>>.
read_line(stream) ==
    LET line == readline(stream)
    IN  IF line = <<>> THEN <<>> ELSE json_loads(strip(line))

CodecInit == Init /\ plugin = "msc"

\* send_response(data): what it writes
codec_send_response(data) ==
    /\ op' = Call("send_response", <<data>>, send_response(data))
    /\ UNCHANGED <<session, omStore, logged>>

\* read_request() on a stream that holds what send_response wrote, and
\* then the line of another message
codec_read_request(next) ==
    /\ op.name = "send_response"
    /\ op' = Call("read_request", <<op.result \o send_response(next)>>,
                  read_line(op.result \o send_response(next)))
    /\ UNCHANGED <<session, omStore, logged>>

CodecNext ==
    \/ \E data \in Messages : codec_send_response(data)
    \/ \E next \in {[key |-> "error", value |-> <<"n">>]} : codec_read_request(next)

CodecSpec == CodecInit /\ [][CodecNext]_vars

(***************************************************************************)
(* Properties.                                                             *)
(***************************************************************************)
Last(seq) == seq[Len(seq)]
\* The last step was main reading a mapping with this method.
Dispatched(method) == site = "idle" /\ req.json = "object" /\ req.method = <<method>>
\* {"result": "initialized"} or an error response
Terminal(e) == e.kind = "error" \/ (e.kind = "result" /\ e.arg = "initialized")
\* An `error` message: a mapping with "error", without "result", no form_change.
IsCancel(v) ==
    v.json = "object" /\ v.has_error /\ v.result = <<>> /\ v.method # <<"form_change">>
\* The call of a remote client raised.
Raised(e) == e.kind = "call" /\ e.arg.outcome.raised
\* The station search of this pass returned no station / some station.
SearchEmpty(evs) ==
    \E i \in DOMAIN evs : /\ evs[i].kind = "call" /\ evs[i].text = "search_stations_bbox"
                          /\ ~evs[i].arg.outcome.raised /\ evs[i].arg.outcome.value = <<>>
SearchFound(evs) ==
    \E i \in DOMAIN evs : /\ evs[i].kind = "call" /\ evs[i].text = "search_stations_bbox"
                          /\ ~evs[i].arg.outcome.raised /\ evs[i].arg.outcome.value # <<>>
IsStepForm(e, n) ==
    e.kind = "show_form"
    /\ e.text = (IF n = 1 THEN "MSC Climate Discovery - Step 1/2"
                 ELSE "MSC Climate Discovery - Step 2/2")

\* C1: as long as no initialize has written {"result": "initialized"}, a
\* get_series_data request is answered with error responses only, never
\* with a binary frame.
C1_NoFrameBeforeInitialized ==
    (Dispatched("get_series_data") /\ ~initialized) =>
        \A i \in DOMAIN events : events[i].kind \in {"error", "log"}

C3_UnknownMethod ==
    [][(pc = "idle" /\ req'.json = "object" /\ req'.method \notin Known) =>
          /\ Len(events') = 1
          /\ events'[1].kind = "error"
          /\ events'[1].text = "Unknown method: "
          /\ events'[1].arg = Str(req'.method)
          /\ pc' = "idle"
          /\ UNCHANGED <<initialized, mscState, mscLocals, omState, omStore, omLocals>>]_vars
C3_Witness ==
    /\ Dispatched("frobnicate")
    /\ initialized
    /\ Len(events) = 1
    /\ events[1].kind = "error"
    /\ events[1].arg = "frobnicate"

\* C4: an `error` message read by a waiting workflow is answered with the
\* one response {"error": "cancelled"}; no form is emitted and the workflow
\* returns to main without another read.
C4_Cancel ==
    [][(pc = "wf" /\ IsCancel(req')) =>
          /\ pc' = "idle"
          /\ Len(Responses(events')) = 1
          /\ Responses(events')[1].kind = "error"
          /\ Responses(events')[1].text = "cancelled"
          /\ \A i \in DOMAIN events' : events'[i].kind \in {"log", "error"}]_vars
C4_Witness ==
    /\ site = "wf"
    /\ IsCancel(req)
    /\ pc = "idle"
    /\ plugin = "msc"
    /\ msc_station # <<>>
    /\ Len(events) = 2
    /\ events[2].text = "cancelled"

\* C5: a remote call that raises while a workflow is active is followed by
\* an error response, and the workflow is then waiting for input again.
C5_RemoteFailureCaught ==
    \A i \in DOMAIN events :
        Raised(events[i]) =>
            /\ pc = "wf"
            /\ \E j \in (i + 1)..Len(events) : events[j].kind = "error"

\* C6, as claimed: whenever a workflow returns to main, the pass that
\* returns wrote a terminal response as its last response.
C6_TerminalOnEveryReturn ==
    [][(pc = "wf" /\ pc' = "idle") =>
          /\ Responses(events') # <<>>
          /\ Terminal(Last(Responses(events')))]_vars
\* C6, amended: a workflow that returns to main after reading a value that
\* is not None (nor empty) wrote exactly one response in that pass, a
\* terminal one, as the last thing it wrote; a workflow that returns
\* because read_request returned None (or an empty value) wrote nothing.
C6_TerminalOnReturn ==
    [][(pc = "wf" /\ pc' = "idle") =>
          IF Falsy(req') THEN events' = <<>>
          ELSE /\ Len(Responses(events')) = 1
               /\ Terminal(Last(events'))
               /\ \A i \in DOMAIN events' : ~IsFormEv(events'[i])]_vars
C6_Witness ==
    /\ site = "wf"
    /\ pc = "idle"
    /\ ~Falsy(req)
    /\ events # <<>>
    /\ Last(events).kind = "result"

\* C7: after read_request returned None for an empty or unparsable line
\* the session never answers a later line: whatever it does next, it
\* writes nothing more to the peer.
C7_NoReadAfterBadLine ==
    [][(site # "none" /\ req = None /\ ~closed) => events' = <<>>]_vars

\* C8: at the end of the stream nothing more is written, main exits at
\* once, a waiting workflow returns to main, and the session ends.
C8_EndOfStream ==
    /\ closed ~> (pc = "done")
    /\ [][closed' =>
            /\ events' = <<>>
            /\ pc = "idle" => pc' = "done"
            /\ pc = "wf" => pc' = "idle"]_vars
C8_Witness ==
    /\ closed
    /\ site = "wf"
    /\ pc = "idle"

\* C9: no value read from the stream makes a handler or a workflow step
\* end the process with an exception that nothing catches.
C9_NoRecordEndsProcess ==
    (site # "none" /\ req.json # "None") => pc # "crashed"

\* C10: a step-1 search that returns no station is followed by a warning
\* log, an error response and the step-1 form, with the workflow still at
\* step 1; the step becomes 2 only in a pass whose search returned a
\* station, a pass at step 2 that stays there searches nothing, and a
\* step-2 form is only emitted at step 2 with a station to offer.
C10_EmptySearchStaysAtStep1 ==
    /\ [][/\ (plugin = "msc" /\ pc = "wf" /\ SearchEmpty(events')) =>
               /\ pc' = "wf"
               /\ step = 1
               /\ step' = 1
               /\ Len(events') >= 3
               /\ events'[Len(events') - 2].kind = "log"
               /\ events'[Len(events') - 2].level = "warn"
               /\ events'[Len(events') - 1].kind = "error"
               /\ IsStepForm(Last(events'), 1)
               /\ \A i \in DOMAIN events' : ~IsStepForm(events'[i], 2)
          /\ (step # 2 /\ step' = 2) =>
               /\ SearchFound(events')
               /\ discovered_stations' # <<>>
          /\ (step = 2 /\ step' = 2) =>
               /\ ~SearchEmpty(events')
               /\ ~SearchFound(events')
               /\ discovered_stations' = discovered_stations]_vars
    /\ [](\A i \in DOMAIN events :
            IsStepForm(events[i], 2) => step = 2 /\ discovered_stations # <<>>)
C10_Witness ==
    /\ plugin = "msc"
    /\ pc = "wf"
    /\ step = 1
    /\ SearchEmpty(events)
    /\ IsStepForm(Last(events), 1)

\* C11: a get_series_data request that carries no series_id, or the id of
\* a series the plugin does not provide, is answered with one error
\* response, never with a binary frame, and main is back at its read.
C11_MissingSeriesIdIsError ==
    (Dispatched("get_series_data") /\ Get(req.series_id, "") \in {"", "nosuch"}) =>
        /\ pc = "idle"
        /\ Len(events) = 1
        /\ events[1].kind = "error"

\* A submitted Open Meteo form that fails validation: its start date is not
\* before its end date, or no city is left once the blank names are dropped.
Submitted(v) == v.json = "object" /\ v.method # <<"form_change">> /\ v.result # <<>>
Blank(c) == c \in {"", " "}
Invalid(res) ==
    /\ res.t = "dict"
    /\ \/ Get(res.start_date, DefaultStartOm) >= Get(res.end_date, DefaultEndOm)
       \/ \A i \in DOMAIN Get(res.cities, <<>>) : Blank(Get(res.cities, <<>>)[i])

\* C12: a submitted form that fails validation is answered with exactly one
\* error response and nothing else (no log, no remote call), the workflow
\* keeps waiting, and the configured cities, dates and mode, the loaded
\* data, the cache and the history are unchanged.
C12_ValidationError ==
    [][(plugin = "om" /\ pc = "wf" /\ Submitted(req') /\ Invalid(req'.result[1])) =>
          /\ pc' = "wf"
          /\ Len(events') = 1
          /\ events'[1].kind = "error"
          /\ events'[1].text \in {"Start date must be before end date.",
                                  "At least one valid city is required."}
          /\ UNCHANGED <<initialized, omState, omStore, omLocals>>]_vars
C12_Witness ==
    /\ plugin = "om"
    /\ pc = "wf"
    /\ site = "wf"
    /\ Submitted(req)
    /\ Get(req.result[1].start_date, DefaultStartOm) >= Get(req.result[1].end_date, DefaultEndOm)
    /\ initialized
    /\ events = <<send_error("Start date must be before end date.", 0)>>

\* C13: a form_change read by the waiting Open Meteo workflow is answered
\* with exactly one response, a form update or an empty acknowledgement;
\* the workflow keeps waiting and the configured cities, dates, mode and
\* loaded data are unchanged.
C13_FormChangeAnswered ==
    [][(plugin = "om" /\ pc = "wf" /\ req'.json = "object"
          /\ req'.method = <<"form_change">>) =>
          /\ pc' = "wf"
          /\ Len(Responses(events')) = 1
          /\ Responses(events')[1].kind \in {"form_update", "ack"}
          /\ UNCHANGED <<initialized, omState, history>>]_vars

\* C14: in any sequence of save_city and save_daily calls there is one row
\* per name and one name per id, a saved name keeps its id for ever,
\* save_city returns that id, and it leaves the name with the coordinates
\* it was given and every other row as it was.
C14_StableIdentifiers ==
    /\ [](\A r1 \in cache_cities, r2 \in cache_cities :
            (r1.name = r2.name \/ r1.id = r2.id) => r1 = r2)
    /\ [][/\ \A r \in cache_cities :
                \E r2 \in cache_cities' : r2.name = r.name /\ r2.id = r.id
          /\ (op'.name = "save_city" /\ op' # op) =>
                /\ op'.result = get_city_id(cache_cities', op'.args[1])
                /\ op'.result # <<>>
                /\ get_city_location(cache_cities', op'.args[1]) = <<op'.args[2]>>
                /\ \A r \in cache_cities : r.name # op'.args[1] => r \in cache_cities'
                /\ \A r \in cache_cities' : r.name # op'.args[1] => r \in cache_cities]_vars
\* Calgary, saved first, is saved again with other coordinates after Banff
\* was saved and rows were cached for it: it still has the id 1.
C14_Witness ==
    /\ op = Call("save_city", <<"Calgary", OtherLoc>>, <<1>>)
    /\ Cardinality(cache_cities) = 2
    /\ get_city_location(cache_cities, "Calgary") = <<OtherLoc>>
    /\ \E r \in cache_daily : r.city_id = 1

\* The dates cached for a name (none for a name never saved).
CachedDates(name) ==
    {r.date : r \in {x \in cache_daily :
                        \E c \in cache_cities : c.name = name /\ c.id = x.city_id}}
Earlier(a, b) == IF a < b THEN a ELSE b

\* C15: has_date_range is false for a name never saved and for a name with
\* no cached row; otherwise it is true exactly when the first cached date is
\* not after the start and the last cached date is not before the earlier
\* of the end and the day seven days before today.  A cache whose only row
\* is one day of Calgary, more than a week ago, covers that one day.
C15_Coverage ==
    (op.name = "has_date_range") =>
        LET name == op.args[1]
            sd == op.args[2]
            ed == op.args[3]
            dates == CachedDates(name)
        IN  /\ (\A c \in cache_cities : c.name # name) => op.result = FALSE
            /\ dates = {} => op.result = FALSE
            /\ dates # {} =>
                 (op.result <=> ((\E m \in dates : m <= sd)
                                 /\ (\E m \in dates : m >= Earlier(ed, Today - 7))))
            /\ (Cardinality(cache_daily) = 1 /\ dates = {Today - 8}
                /\ name = "Calgary" /\ sd = Today - 8 /\ ed = Today - 8) => op.result = TRUE
\* The last cached day is the day the archive lags to, the range asked for
\* ends a day later: covered.
C15_Witness ==
    /\ op.name = "has_date_range"
    /\ op.args = <<"Banff", Today - 7, Today - 6>>
    /\ CachedDates("Banff") = {Today - 8, Today - 7}
    /\ CachedDates("Calgary") = {}
    /\ op.result = TRUE

\* The last row of a DataFrame for a date.
LastRow(df, d) ==
    df[CHOOSE i \in DOMAIN df : df[i].date = d /\ \A j \in DOMAIN df : df[j].date = d => j <= i]
\* The rows cached for a name.
CachedRows(cities, daily, name) ==
    {x \in daily : \E c \in cities : c.name = name /\ c.id = x.city_id}

\* C16: save_daily is an idempotent last-write-wins upsert by (city, date):
\* there is never more than one row for a city and a date; a call leaves
\* each date of its DataFrame with the values of the last row for it and
\* every other cached row as it was; the same call made again changes what
\* get_daily_data returns for no city and no range.
C16_MergeIdempotent ==
    /\ [](\A x \in cache_daily, y \in cache_daily :
            (x.city_id = y.city_id /\ x.date = y.date) => x = y)
    /\ []((op.name = "save_daily" /\ get_city_id(cache_cities, op.args[1]) # <<>>) =>
            \A i \in DOMAIN op.args[2] :
               LET r == LastRow(op.args[2], op.args[2][i].date)
               IN  [city_id |-> get_city_id(cache_cities, op.args[1])[1],
                    date |-> r.date, tmean |-> r.tmean,
                    tmin |-> r.tmin, tmax |-> r.tmax] \in cache_daily)
    /\ [][(op'.name = "save_daily") =>
            /\ \A x \in (cache_daily' \ cache_daily) \cup (cache_daily \ cache_daily') :
                  /\ <<x.city_id>> = get_city_id(cache_cities, op'.args[1])
                  /\ \E i \in DOMAIN op'.args[2] : op'.args[2][i].date = x.date
            /\ (op.name = "save_daily" /\ op.args = op'.args) =>
                  \A n \in CityNames, sd \in RangeStarts, ed \in CacheDays :
                     get_daily_data(cache_cities', cache_daily', n, sd, ed)
                       = get_daily_data(cache_cities, cache_daily, n, sd, ed)]_vars
\* A day cached with one reading was saved again in a DataFrame that holds
\* it twice, the other reading last: one row, with the later values.
C16_Witness ==
    /\ op = Call("save_daily",
                 <<"Calgary", <<Row(Today - 8, 5, 1, 9), Row(Today - 8, 6, 2, 10)>>>>, <<>>)
    /\ CachedRows(cache_cities, cache_daily, "Calgary")
         = {[city_id |-> 2, date |-> Today - 8, tmean |-> 6, tmin |-> 2, tmax |-> 10]}
    /\ CachedRows(cache_cities, cache_daily, "Banff") # {}

\* C17: get_daily_data returns the rows cached for the name whose date lies
\* between the start and the end date (both included), each once, in
\* strictly ascending order of date and with the cached values, and nothing
\* else; it returns no row for a name never saved and for a range that
\* holds no cached date.
C17_FetchRange ==
    (op.name = "get_daily_data") =>
        LET mine == CachedRows(cache_cities, cache_daily, op.args[1])
            sd == op.args[2]
            ed == op.args[3]
            res == op.result
        IN  /\ \A i \in 1..(Len(res) - 1) : res[i].date < res[i + 1].date
            /\ \A i \in DOMAIN res :
                  /\ sd <= res[i].date
                  /\ res[i].date <= ed
                  /\ \E x \in mine : Row(x.date, x.tmean, x.tmin, x.tmax) = res[i]
            /\ \A x \in mine :
                  (sd <= x.date /\ x.date <= ed) => \E i \in DOMAIN res : res[i].date = x.date
            /\ (\A c \in cache_cities : c.name # op.args[1]) => res = <<>>
\* Calgary has rows on all three days, Banff one with another reading: the
\* range of the first two days returns Calgary's two rows.
C17_Witness ==
    /\ op.name = "get_daily_data"
    /\ op.args = <<"Calgary", Today - 8, Today - 7>>
    /\ op.result = <<Row(Today - 8, 5, 1, 9), Row(Today - 7, 5, 1, 9)>>
    /\ Cardinality(CachedRows(cache_cities, cache_daily, "Calgary")) = 3
    /\ \E x \in CachedRows(cache_cities, cache_daily, "Banff") : x.tmean = 6

\* The entries of h other than s, in the order h has them.
Without(h, s) == LET other(x) == x # s IN SelectSeq(h, other)

HeaderAt(w, i) == w[i].stream = "line" /\ w[i].msg.type = "binary"
C20_RoundTrip ==
    /\ [](op.name = "send_response" =>
            /\ Last(op.result) = Newline
            /\ \A i \in 1..(Len(op.result) - 1) : op.result[i] # Newline)
    /\ [][(op.name = "send_response" /\ op'.name = "read_request") =>
            op'.result = <<op.args[1]>>]_vars
\* A message whose string has a newline, a quote and a backslash, read back.
C20_Witness ==
    /\ op.name = "read_request"
    /\ op.result = <<[key |-> "error", value |-> <<Newline, Quote, Backslash>>]>>

\* C21: main leaves its loop only when read_request returned None; every
\* mapping it reads, the empty mapping and a mapping without "method"
\* included, is answered with a response before main reads again (a value
\* that makes a handler raise apart, which is C9's subject).
C21_ExitOnlyOnNone ==
    /\ pc = "done" => req = None
    /\ (site = "idle" /\ req.json \in {"object", "empty_object"} /\ pc # "crashed") =>
          /\ pc \in {"idle", "wf"}
          /\ Responses(events) # <<>>

\* C22: whenever has_date_range returns true for a name and a range, the
\* cache holds a row of that name for every day from the start of the range
\* to the earlier of its end and today - 7.
C22_CoveredMeansNoGap ==
    (op.name = "has_date_range" /\ op.result = TRUE) =>
        \A d \in op.args[2]..Earlier(op.args[3], Today - 7) : d \in CachedDates(op.args[1])

\* A call of this remote client about this city is among the events.
Called(evs, fn, city) ==
    \E i \in DOMAIN evs : evs[i].kind = "call" /\ evs[i].text = fn /\ evs[i].arg.about = city
\* The log line load_city_data writes when it serves a city from the cache.
FromCache(evs, city) ==
    \E i \in DOMAIN evs : evs[i] = log("info", "Using cached data for", city)

\* C23: the Open Meteo workflow asks the cache before any remote client.
\* The archive is fetched for a city only if has_date_range was false for
\* the range submitted, and a city is geocoded only if the cache has no
\* coordinates for it; a city whose range is covered is served from the
\* cache without any remote call; and the rows a fetch returned are in the
\* cache, and in the data read back for the city, at the end of the pass.
C23_CacheFirst ==
    [][(plugin = "om" /\ site' = "wf" /\ events' # events) =>
          LET res == IF Submitted(req') THEN req'.result[1] ELSE NoPayload
              sd == Get(res.start_date, DefaultStartOm)
              ed == Get(res.end_date, DefaultEndOm)
          IN  \A c \in CityNames :
                /\ Called(events', "geocode_city", c) =>
                      get_city_location(cache_cities, c) = <<>>
                /\ Called(events', "fetch_historical", c) =>
                      /\ Submitted(req')
                      /\ ~has_date_range(cache_cities, cache_daily, c, sd, ed)
                      /\ ~FromCache(events', c)
                /\ (Submitted(req') /\ has_date_range(cache_cities, cache_daily, c, sd, ed)) =>
                      /\ ~Called(events', "geocode_city", c)
                      /\ ~Called(events', "fetch_historical", c)
                      /\ FromCache(events', c) =>
                            /\ c \in DOMAIN om_data'
                            /\ om_data'[c] = get_daily_data(cache_cities, cache_daily, c, sd, ed)
                /\ \A i \in DOMAIN events' :
                      (/\ events'[i].kind = "call" /\ events'[i].text = "fetch_historical"
                       /\ events'[i].arg.about = c /\ ~events'[i].arg.outcome.raised
                       /\ events'[i].arg.outcome.value # <<>>) =>
                          /\ \A k \in DOMAIN events'[i].arg.outcome.value :
                                LET r == events'[i].arg.outcome.value[k]
                                IN  /\ \E x \in cache_daily' :
                                          /\ x.city_id = get_city_id(cache_cities', c)[1]
                                          /\ Row(x.date, x.tmean, x.tmin, x.tmax) = r
                                    /\ (sd <= r.date /\ r.date <= ed) =>
                                          \E j \in DOMAIN om_data'[c] : om_data'[c][j] = r
                          /\ om_data'[c] = get_daily_data(cache_cities', cache_daily', c, sd, ed)]_vars
\* A submitted form whose two cities are both served from the cache: no
\* remote call in the pass, and the workflow succeeds.
C23_Witness ==
    /\ plugin = "om"
    /\ site = "wf"
    /\ Submitted(req)
    /\ pc = "idle"
    /\ FromCache(events, "Calgary")
    /\ FromCache(events, "Banff")
    /\ \A i \in DOMAIN events : events[i].kind # "call"
    /\ Len(om_data["Calgary"]) = 2
    /\ Last(events) = send_result("initialized")

\* The value read is a form_change.
IsFormChange(v) == v.json = "object" /\ v.method = <<"form_change">>
\* The search_type of a form change, and whether it names a past search
\* other than the one remembered.
SearchOf(v) == Get(Get(v.data, FormData(<<>>, <<>>)).search_type, NewSearch)
Preset(v) ==
    /\ SearchOf(v) # last_search_type
    /\ SearchOf(v) # NewSearch
    /\ InMaps(search_maps, SearchOf(v))
\* The city list a form change comes to: that of the past search it picks,
\* its own otherwise.
CitiesOf(v) ==
    IF Preset(v) THEN Lookup(search_maps, SearchOf(v)).cities
    ELSE Get(Get(v.data, FormData(<<>>, <<>>)).cities, <<>>)

\* C24: in a form_change pass the cache is asked for coordinates and cities
\* are geocoded only when the city list the change comes to differs from the
\* one remembered; the cities and dates of a past search are put into the
\* form only when search_type differs from the one remembered; a change
\* with the remembered cities and the remembered search_type is answered
\* with the empty acknowledgement alone and changes nothing; and after every
\* pass the remembered values are those of the change.
C24_ChangeDetection ==
    [][(plugin = "om" /\ pc = "wf" /\ IsFormChange(req')) =>
          /\ (\E i \in DOMAIN events' : events'[i].kind = "call") =>
                CitiesOf(req') # last_cities
          /\ (\E i \in DOMAIN events' :
                events'[i].kind = "form_update" /\ events'[i].arg.start_date # <<>>) =>
                SearchOf(req') # last_search_type
          /\ (CitiesOf(req') = last_cities /\ SearchOf(req') = last_search_type) =>
                /\ events' = <<send_ack>>
                /\ pc' = "wf"
                /\ UNCHANGED <<initialized, omState, omStore, omLocals>>
          /\ (CitiesOf(req') # last_cities /\ pc' = "wf") =>
                /\ Last(events').kind = "form_update"
                /\ Last(events').arg.map_markers # <<>>
          /\ pc' = "wf" =>
                /\ last_cities' = CitiesOf(req')
                /\ last_search_type' = SearchOf(req')
                /\ search_maps' = search_maps]_vars
\* The same form change a second time, after a past search was picked and
\* the city list edited: acknowledged, nothing looked up.
C24_Witness ==
    /\ plugin = "om"
    /\ pc = "wf"
    /\ site = "wf"
    /\ IsFormChange(req)
    /\ last_search_type # NewSearch
    /\ SearchOf(req) = last_search_type
    /\ last_cities = <<"Banff">>
    /\ CitiesOf(req) = last_cities
    /\ events = <<send_ack>>

\* The station a submitted step-2 form selects is none of the discovered ones.
Stale(v) ==
    /\ HasResult(v)
    /\ v.result[1].t = "dict"
    /\ v.result[1].station # <<>>
    /\ \A i \in DOMAIN discovered_stations : discovered_stations[i] # v.result[1].station[1]

\* C25: at step 2 a submitted form whose station is none of the stations the
\* last search discovered is answered with the error "Selection lost. Please
\* try again." followed by the step-1 form; the workflow is at step 1 and
\* waiting, nothing is fetched, and the plugin state is as it was.
C25_SelectionLost ==
    [][(plugin = "msc" /\ pc = "wf" /\ step = 2 /\ Stale(req')) =>
          /\ pc' = "wf"
          /\ step' = 1
          /\ Len(events') = 2
          /\ events'[1].kind = "error"
          /\ events'[1].text = "Selection lost. Please try again."
          /\ IsStepForm(events'[2], 1)
          /\ UNCHANGED <<initialized, mscState, coords, start_date, end_date>>]_vars
\* A station that is not among the two discovered is selected in a session
\* that loaded observations before.
C25_Witness ==
    /\ plugin = "msc"
    /\ site = "wf"
    /\ pc = "wf"
    /\ step = 1
    /\ HasResult(req)
    /\ req.result[1].station = <<UnknownStation>>
    /\ Len(discovered_stations) = MaxStations
    /\ msc_observations # <<>>
    /\ Len(events) = 2
    /\ events[1].text = "Selection lost. Please try again."

\* C26: whenever the MSC workflow is at its read, the last thing written
\* since the previous read is the form of the current step, it is the only
\* form written since then, and the responses written since then are that
\* form alone or one error response and then that form.
C26_FormBeforeEveryRead ==
    (plugin = "msc" /\ pc = "wf") =>
        /\ step \in {1, 2}
        /\ events # <<>>
        /\ IsStepForm(Last(events), step)
        /\ Len(SelectSeq(events, IsFormEv)) = 1
        /\ Len(Responses(events)) \in {1, 2}
        /\ Len(Responses(events)) = 2 => Responses(events)[1].kind = "error"
        /\ \A i \in DOMAIN events : events[i].kind \in {"log", "call", "error", "show_form"}
\* A message that is neither a result nor an error, read at step 2: the
\* step-2 form is emitted again before the next read.
C26_Witness ==
    /\ plugin = "msc"
    /\ pc = "wf"
    /\ site = "wf"
    /\ step = 2
    /\ req.json = "object"
    /\ ~HasResult(req)
    /\ ~HasError(req)
    /\ Len(events) = 1
    /\ IsStepForm(events[1], 2)

\* C27: the step-1 form the MSC workflow emits carries the location and the
\* dates the workflow holds, and those are the defaults after initialize,
\* what a step-1 submission gave (for each of the three, the value held
\* before if the submission has none) whether its search found stations,
\* found none or failed, and are left as they were by every other pass, a
\* regression from step 2 to step 1 included.
C27_Prefill ==
    /\ []((plugin = "msc" /\ pc = "wf" /\ step = 1) =>
            Last(events).arg.data =
                [location |-> coords, startDate |-> start_date, endDate |-> end_date])
    /\ [][(plugin = "msc" /\ pc' = "wf") =>
            IF pc = "idle"
            THEN /\ coords' = DefaultCoords
                 /\ start_date' = Today - 395
                 /\ end_date' = Today - 30
            ELSE IF step = 1 /\ HasResult(req')
            THEN /\ coords' = Get(req'.result[1].location, coords)
                 /\ start_date' = Get(req'.result[1].startDate, start_date)
                 /\ end_date' = Get(req'.result[1].endDate, end_date)
            ELSE UNCHANGED <<coords, start_date, end_date>>]_vars
\* Dates submitted with a search that failed or found nothing, a location
\* submitted with a search that found stations, and then a regression from
\* step 2: the step-1 form carries that location and those dates.
C27_Witness ==
    /\ plugin = "msc"
    /\ pc = "wf"
    /\ site = "wf"
    /\ step = 1
    /\ HasResult(req)
    /\ req.result[1].station = <<UnknownStation>>
    /\ Last(events).arg.data =
          [location |-> OtherCoords, startDate |-> SubmittedStart, endDate |-> SubmittedEnd]

\* The value read is an initialize request.
IsInitialize(v) == v.json = "object" /\ v.method = <<"initialize">>

\* C28: an initialize request read by main starts a workflow of its own,
\* whatever happened in the session before.  The MSC workflow starts at step
\* 1 with the default location, the default dates and no discovered
\* station, and emits the step-1 form with them; the Open Meteo workflow
\* emits its form with the default city, dates, mode and "New Search", and
\* remembers those.  (An initialize during which geocode_city raises starts
\* no workflow: the process ends, see C5.)  While a workflow waits, an
\* initialize request starts no second one: the workflow keeps its values.
C28_FreshWorkflow ==
    [][/\ (pc = "idle" /\ IsInitialize(req') /\ pc' # "crashed") =>
            /\ pc' = "wf"
            /\ plugin = "msc" =>
                  /\ step' = 1
                  /\ coords' = DefaultCoords
                  /\ start_date' = Today - 395
                  /\ end_date' = Today - 30
                  /\ discovered_stations' = <<>>
                  /\ Len(events') = 1
                  /\ IsStepForm(events'[1], 1)
                  /\ events'[1].arg.data = [location |-> DefaultCoords,
                                            startDate |-> Today - 395,
                                            endDate |-> Today - 30]
            /\ plugin = "om" =>
                  /\ last_cities' = <<"Calgary">>
                  /\ last_search_type' = NewSearch
                  /\ Len(Responses(events')) = 1
                  /\ Last(events').kind = "show_form"
                  /\ Last(events').arg.data.cities = <<"Calgary">>
                  /\ Last(events').arg.data.search_type = NewSearch
                  /\ Last(events').arg.data.start_date = Today - 365 * 30
                  /\ Last(events').arg.data.end_date = Today
                  /\ Last(events').arg.data.mode = "Daily"
       /\ (pc = "wf" /\ IsInitialize(req') /\ ~HasResult(req') /\ ~HasError(req')) =>
            /\ pc' = "wf"
            /\ UNCHANGED <<mscLocals, omLocals>>]_vars
\* A second initialize in a session whose first workflow went to step 2
\* with dates of its own and loaded observations.
C28_Witness ==
    /\ plugin = "msc"
    /\ site = "idle"
    /\ IsInitialize(req)
    /\ pc = "wf"
    /\ step = 1
    /\ msc_start_date = SubmittedStart
    /\ msc_observations # <<>>
    /\ start_date = Today - 395
    /\ discovered_stations = <<>>

\* C29: every mapping a waiting workflow reads, one that is no result, no
\* error and no form_change included, is followed by at least one response
\* (an error, a form, an acknowledgement, a result) before the workflow
\* reads again or returns (a message that makes the workflow raise apart,
\* which is the subject of C9 and C13).
C29_EveryMessageAnswered ==
    [][(pc = "wf" /\ req'.json = "object" /\ pc' # "crashed") =>
          Responses(events') # <<>>]_vars

\* C30: when a workflow returns to main without success (cancelled, or
\* read_request returned None), PluginState is what it was when its
\* handle_initialize was called.
C30_UnsuccessfulLeavesState ==
    [][(pc = "wf" /\ pc' = "idle" /\ (events' = <<>> \/ Last(events').kind = "error")) =>
          (IF plugin = "msc" THEN mscState' ELSE omState') = entry.state[1]]_vars

\* C31: as long as no initialize has written {"result": "initialized"}, a
\* get_chart_config request is answered with the error "Not initialized"
\* and with nothing else.
C31_ChartConfigNeedsSuccess ==
    (Dispatched("get_chart_config") /\ ~initialized) =>
        events = <<send_error("Not initialized", 0)>>

\* C32: the MSC workflow writes {"result": "initialized"} only from step 2,
\* and then state.station is one of the discovered stations, the
\* observations are the non-empty list fetch_daily_data returned for that
\* station, and state.start_date and state.end_date are the dates the
\* workflow holds.  The discovered stations and the dates held at step 2 are
\* those of the step-1 submission that led there: the stations its search
\* returned, its dates (for each, the date held before if it has none), and
\* no pass at step 2 changes them.
C32_SuccessAtStep2 ==
    /\ [][(plugin = "msc" /\ pc = "wf" /\ events' # <<>>
              /\ Last(events') = send_result("initialized")) =>
            /\ step = 2
            /\ msc_station' # <<>>
            /\ msc_station'[1] \in Range(discovered_stations)
            /\ msc_observations' # <<>>
            /\ \E i \in DOMAIN events' :
                 events'[i] = call("fetch_daily_data", msc_station'[1], Return(msc_observations'))
            /\ msc_start_date' = start_date
            /\ msc_end_date' = end_date]_vars
    /\ [][(plugin = "msc" /\ pc = "wf" /\ pc' = "wf" /\ step' = 2) =>
            IF step = 1
            THEN /\ HasResult(req')
                 /\ discovered_stations' # <<>>
                 /\ \E i \in DOMAIN events' :
                      events'[i] = call("search_stations_bbox", coords', Return(discovered_stations'))
                 /\ start_date' = Get(req'.result[1].startDate, start_date)
                 /\ end_date' = Get(req'.result[1].endDate, end_date)
            ELSE UNCHANGED <<discovered_stations, start_date, end_date>>]_vars
\* A workflow that succeeded with the last of two discovered stations and
\* with submitted dates.
C32_Witness ==
    /\ plugin = "msc"
    /\ site = "wf"
    /\ pc = "idle"
    /\ events # <<>>
    /\ Last(events) = send_result("initialized")
    /\ msc_station = <<MaxStations>>
    /\ msc_start_date = SubmittedStart
    /\ msc_end_date = SubmittedEnd
    /\ msc_observations # <<>>

\* C33: when the Open Meteo workflow has written {"result": "initialized"},
\* state.cities is not empty, state.data has an entry for every city of
\* state.cities, and for no other city.
C33_EveryCityLoaded ==
    (plugin = "om" /\ site = "wf" /\ events # <<>> /\ Last(events) = send_result("initialized")) =>
        /\ om_cities # <<>>
        /\ DOMAIN om_data = Range(om_cities)

\* C34: whenever the MSC workflow waits at step 2 the list of discovered
\* stations is not empty, and every step-2 form written offers the
\* discovered stations, at least one, with the first of them prefilled.
C34_Step2HasStations ==
    /\ (plugin = "msc" /\ pc = "wf" /\ step = 2) =>
          /\ discovered_stations # <<>>
          /\ Last(events).arg.data.oneOf = discovered_stations
    /\ \A i \in DOMAIN events :
          IsStepForm(events[i], 2) =>
              /\ events[i].arg.data.oneOf # <<>>
              /\ events[i].arg.data.station # <<>>
              /\ events[i].arg.data.station[1] \in Range(events[i].arg.data.oneOf)
\* The step-2 form of a search that found the most stations, emitted again
\* after a message read at step 2.
C34_Witness ==
    /\ plugin = "msc"
    /\ pc = "wf"
    /\ site = "wf"
    /\ step = 2
    /\ Len(discovered_stations) = MaxStations
    /\ ~HasResult(req)
    /\ req.json = "object"
    /\ Len(events) = 1
    /\ IsStepForm(events[1], 2)
    /\ events[1].arg.data.station = <<discovered_stations[1]>>

\* C35: a request read by main whose method is not initialize (info,
\* get_chart_config, get_series_config, get_series_data, any other or no
\* method) leaves PluginState, the cache tables and the search history as
\* they were and main at its read; and the same request read again right
\* after it is answered with the same writes.
C35_ReadOnlyHandlers ==
    /\ [][(pc = "idle" /\ req'.json = "object" /\ req'.method # <<"initialize">>) =>
            /\ pc' = "idle"
            /\ UNCHANGED <<initialized, mscState, omState, cache_cities, cache_daily, history>>]_vars
    /\ [][(pc = "idle" /\ site = "idle" /\ req.json = "object"
              /\ req.method # <<"initialize">> /\ req' = req) =>
            events' = events]_vars
\* get_series_config answered with the series of a loaded city while the
\* cache and the history are not empty.
C35_Witness ==
    /\ plugin = "om"
    /\ Dispatched("get_series_config")
    /\ Len(events) = 1
    /\ events[1].kind = "result"
    /\ om_cities # <<>>
    /\ DOMAIN om_data # {}
    /\ cache_daily # {}
    /\ history # <<>>

\* C36: save_daily leaves the cities table as it was; with an empty frame,
\* or for a name that save_city never saved, it leaves the daily table as
\* it was too; the rows it adds or changes are rows of the id of its name;
\* and every cached row belongs to the id of a saved city.
C36_MergeNeedsCity ==
    /\ [](\A r \in cache_daily : \E c \in cache_cities : c.id = r.city_id)
    /\ [][(op'.name = "save_daily") =>
            /\ cache_cities' = cache_cities
            /\ (op'.args[2] = <<>> \/ get_city_id(cache_cities, op'.args[1]) = <<>>) =>
                  cache_daily' = cache_daily
            /\ \A r \in cache_daily' \ cache_daily :
                  <<r.city_id>> = get_city_id(cache_cities, op'.args[1])]_vars
\* save_daily with rows for Banff, never saved, while Calgary is saved and
\* has cached rows.
C36_Witness ==
    /\ op.name = "save_daily"
    /\ op.args[1] = "Banff"
    /\ op.args[2] # <<>>
    /\ get_city_id(cache_cities, "Banff") = <<>>
    /\ get_city_id(cache_cities, "Calgary") # <<>>
    /\ cache_daily # {}

====
